---- MODULE Spec2Model ----
(***************************************************************************)
(* A model of the Smart Keys editor extension: the brace matcher, the      *)
(* indent inference, the End toggle tracker and the Enter / Backspace      *)
(* handlers, as state machines over a line-oriented document.              *)
(*                                                                         *)
(* Text is a sequence of one-character strings, a document a sequence of   *)
(* lines.  Line and character numbers are 0-based as in the source; the    *)
(* operators below convert when they index a TLA+ sequence.                *)
(***************************************************************************)
EXTENDS Integers, Sequences, FiniteSets, TLC

VARIABLES
    lines,              \* editor.document: the lines of the active document
    selections,         \* editor.selections: sequence of [anchor, active]
    uri,                \* document.uri.toString() of the active document
    languageId,         \* document.languageId
    tabSize,            \* editor.options.tabSize
    insertSpaces,       \* editor.options.insertSpaces
    config,             \* the smart-keys configuration booleans
    lastEndPositions,   \* SmartEndHandler.lastEndPositions
    pending,            \* host notifications not yet delivered to the extension
    pc,                 \* where the running handler is suspended ("idle": none)
    saved,              \* locals of the suspended handler
    op,                 \* the last key action or query, and what it did
    prevLines,          \* the document when the last key action started
    prevSelections,     \* the selections when the last key action started
    delivered           \* the last notification delivered, the state before and after

vars == << lines, selections, uri, languageId, tabSize, insertSpaces, config,
           lastEndPositions, pending, pc, saved, op, prevLines, prevSelections,
           delivered >>

(***************************************************************************)
(* Bounds of the model.                                                    *)
(***************************************************************************)
MaxLines == 2
MaxLineLen == 2
MaxAppend == 2

(***************************************************************************)
(* Strings.                                                                *)
(***************************************************************************)
Min(S) == CHOOSE x \in S : \A y \in S : x <= y
Max(S) == CHOOSE x \in S : \A y \in S : x >= y

\* All texts over the alphabet A of length at most n.
RECURSIVE TextsUpTo(_, _)
TextsUpTo(A, n) ==
    IF n = 0 THEN { <<>> }
    ELSE LET shorter == TextsUpTo(A, n - 1)
         IN  shorter \cup { Append(s, c) : s \in shorter, c \in A }

\* All documents of 1..n lines drawn from the set of lines L.
RECURSIVE DocsUpTo(_, _)
DocsUpTo(L, n) ==
    IF n = 1 THEN { << l >> : l \in L }
    ELSE LET fewer == DocsUpTo(L, n - 1)
         IN  fewer \cup { Append(d, l) : d \in fewer, l \in L }

\* The characters String.prototype.trim / trimEnd / \s treat as whitespace,
\* restricted to the two that occur in the model's alphabets.
IsWhitespace(c) == c \in { " ", "\t" }

\* s.slice(from, to)
slice(s, from, to) ==
    LET f == IF from > Len(s) THEN Len(s) ELSE from
        t == IF to > Len(s) THEN Len(s) ELSE to
    IN  SubSeq(s, f + 1, t)

\* s.slice(from)
sliceFrom(s, from) == slice(s, from, Len(s))

\* s.trimEnd().length
RECURSIVE trimEndLength(_)
trimEndLength(s) ==
    IF s = <<>> \/ ~IsWhitespace(s[Len(s)]) THEN Len(s)
    ELSE trimEndLength(SubSeq(s, 1, Len(s) - 1))

\* s.trimEnd()
trimEnd(s) == SubSeq(s, 1, trimEndLength(s))

\* s.search(/\S/): index of the first non-whitespace character, or -1
searchNonWhitespace(s) ==
    LET idx == { i \in 1..Len(s) : ~IsWhitespace(s[i]) }
    IN  IF idx = {} THEN -1 ELSE Min(idx) - 1

\* A slip: only the whitespace at the end is dropped.
trim_EndOnly(s) == SubSeq(s, 1, trimEndLength(s))

\* s.trim()
trim(s) ==
    IF searchNonWhitespace(s) = -1 THEN <<>>
    ELSE SubSeq(s, searchNonWhitespace(s) + 1, trimEndLength(s))

\* A slip: the last occurrence is taken.
indexOf_Last(s, c) ==
    LET idx == { i \in 1..Len(s) : s[i] = c }
    IN  IF idx = {} THEN -1 ELSE Max(idx) - 1

\* s.indexOf(c)
indexOf(s, c) ==
    LET idx == { i \in 1..Len(s) : s[i] = c }
    IN  IF idx = {} THEN -1 ELSE Min(idx) - 1

\* c.repeat(n)
repeat(c, n) == [ i \in 1..n |-> c ]

(***************************************************************************)
(* utils/braceHelpers.ts                                                   *)
(***************************************************************************)

\* The scan shared by countUnmatchedBraces and isBraceUnmatched: every line
\* top to bottom, every character left to right; push on "{", pop on "}"
\* when the stack is not empty.
RECURSIVE scanBraces(_, _, _, _)
scanBraces(ls, lineNumber, charIndex, stack) ==
    IF lineNumber >= Len(ls) THEN stack
    ELSE IF charIndex >= Len(ls[lineNumber + 1])
         THEN scanBraces(ls, lineNumber + 1, 0, stack)
    ELSE LET char == ls[lineNumber + 1][charIndex + 1]
             next == IF char = "{"
                     THEN Append(stack, [line |-> lineNumber, char |-> charIndex])
                     ELSE IF char = "}" /\ Len(stack) > 0
                          THEN SubSeq(stack, 1, Len(stack) - 1)
                          ELSE stack
         IN  scanBraces(ls, lineNumber, charIndex + 1, next)

\* A slip: "}" counted against "{" without the emptiness check.
RECURSIVE signedBraces(_, _, _)
signedBraces(ls, lineNumber, charIndex) ==
    IF lineNumber >= Len(ls) THEN 0
    ELSE IF charIndex >= Len(ls[lineNumber + 1])
         THEN signedBraces(ls, lineNumber + 1, 0)
    ELSE LET char == ls[lineNumber + 1][charIndex + 1]
         IN  (IF char = "{" THEN 1 ELSE IF char = "}" THEN -1 ELSE 0)
             + signedBraces(ls, lineNumber, charIndex + 1)

countUnmatchedBraces_NoEmptyCheck(ls) == signedBraces(ls, 0, 0)

countUnmatchedBraces(ls) == Len(scanBraces(ls, 0, 0, <<>>))

\* A slip: only the entry on top of the final stack is compared.
isBraceUnmatched_TopOnly(ls, targetLine, targetChar) ==
    LET stack == scanBraces(ls, 0, 0, <<>>)
    IN  /\ Len(stack) > 0
        /\ stack[Len(stack)].line = targetLine
        /\ stack[Len(stack)].char = targetChar

\* A slip: the entries are compared by their line alone.
isBraceUnmatched_LineOnly(ls, targetLine, targetChar) ==
    LET stack == scanBraces(ls, 0, 0, <<>>)
    IN  \E i \in 1..Len(stack) : stack[i].line = targetLine

isBraceUnmatched(ls, targetLine, targetChar) ==
    LET stack == scanBraces(ls, 0, 0, <<>>)
    IN  \E i \in 1..Len(stack) :
            stack[i].line = targetLine /\ stack[i].char = targetChar

\* lineText.slice(0, targetChar) + lineText.slice(targetChar + 1)
removeCharAt(ls, targetLine, targetChar) ==
    [ ls EXCEPT ![targetLine + 1] =
          slice(@, 0, targetChar) \o sliceFrom(@, targetChar + 1) ]

\* A slip: "does not increase" in place of "decreases".
shouldInsertClosingBrace_NotStrict(ls, targetLine, targetChar) ==
    IF targetLine < 0 \/ targetLine >= Len(ls) THEN FALSE
    ELSE LET lineText == ls[targetLine + 1] IN
         IF \/ targetChar < 0
            \/ targetChar >= Len(lineText)
            \/ lineText[targetChar + 1] # "{"
         THEN FALSE
         ELSE IF isBraceUnmatched(ls, targetLine, targetChar) THEN TRUE
         ELSE countUnmatchedBraces(removeCharAt(ls, targetLine, targetChar))
                  <= countUnmatchedBraces(ls)

shouldInsertClosingBrace(ls, targetLine, targetChar) ==
    IF targetLine < 0 \/ targetLine >= Len(ls) THEN FALSE
    ELSE LET lineText == ls[targetLine + 1] IN
         IF \/ targetChar < 0
            \/ targetChar >= Len(lineText)
            \/ lineText[targetChar + 1] # "{"
         THEN FALSE
         ELSE IF isBraceUnmatched(ls, targetLine, targetChar) THEN TRUE
         ELSE LET unmatchedBefore == countUnmatchedBraces(ls)
                  modifiedLines == removeCharAt(ls, targetLine, targetChar)
                  unmatchedAfterRemoval == countUnmatchedBraces(modifiedLines)
              IN  unmatchedAfterRemoval < unmatchedBefore

(***************************************************************************)
(* utils/indentHelpers.ts                                                  *)
(***************************************************************************)
DefaultTabSize == 4

\* The characters of [\w.:$-] that occur in the model's alphabets.
IsTagNameChar(c) == c \in { "a", "x", "n", "1", "_", ".", ":", "$", "-" }

\* s.startsWith(prefix), s.endsWith(suffix)
startsWith(s, prefix) ==
    Len(s) >= Len(prefix) /\ SubSeq(s, 1, Len(prefix)) = prefix
endsWith(s, suffix) ==
    Len(s) >= Len(suffix) /\ SubSeq(s, Len(s) - Len(suffix) + 1, Len(s)) = suffix

\* A slip: only the line directly above is looked at.
findPreviousNonEmptyLine_Adjacent(ls, startLine) ==
    IF startLine > 0 /\ Len(trim(ls[startLine])) > 0 THEN startLine - 1 ELSE -1

\* findPreviousNonEmptyLine(document, startLine).lineNumber, or -1 for null
findPreviousNonEmptyLine(ls, startLine) ==
    LET found == { n \in 0..(startLine - 1) : Len(trim(ls[n + 1])) > 0 }
    IN  IF found = {} THEN -1 ELSE Max(found)

\* /<[\w.:$-]+(?:\s[^>]*)?>\s*$/.test(s) for a trimmed s: some "<" is followed
\* by a run of name characters, then by nothing or by whitespace and
\* characters other than ">", up to the ">" that ends the line.
matchesOpeningTag(s) ==
    /\ Len(s) >= 3
    /\ s[Len(s)] = ">"
    /\ \E i \in 1..(Len(s) - 2) :
          /\ s[i] = "<"
          /\ IsTagNameChar(s[i + 1])
          /\ \A j \in (i + 1)..(Len(s) - 1) : s[j] # ">"
          /\ LET rest == { j \in (i + 1)..(Len(s) - 1) : ~IsTagNameChar(s[j]) }
             IN  rest = {} \/ IsWhitespace(s[Min(rest)])

isHtmlLikeOpeningTag(trimmedLine) ==
    IF ~startsWith(trimmedLine, << "<" >>) THEN FALSE
    ELSE IF \/ startsWith(trimmedLine, << "<", "/" >>)
            \/ startsWith(trimmedLine, << "<", "!", "-", "-" >>)
            \/ startsWith(trimmedLine, << "<", "!" >>)
            \/ startsWith(trimmedLine, << "<", "?" >>)
         THEN FALSE
    ELSE IF endsWith(trimmedLine, << "/", ">" >>) THEN FALSE
    ELSE IF trimmedLine = << "<", ">" >> THEN TRUE
    ELSE matchesOpeningTag(trimmedLine)

\* /[{:(\[]\s*$/.test(trimmedLine) || isHtmlLikeOpeningTag(trimmedLine)
shouldIncreaseIndent(lineText) ==
    LET trimmedLine == trim(lineText)
    IN  \/ /\ Len(trimmedLine) > 0
           /\ trimmedLine[Len(trimmedLine)] \in { "{", ":", "(", "[" }
        \/ isHtmlLikeOpeningTag(trimmedLine)

\* lineText.match(/^(\s*)/)[1]
getIndentFromLine(lineText) ==
    IF searchNonWhitespace(lineText) = -1 THEN lineText
    ELSE slice(lineText, 0, searchNonWhitespace(lineText))

\* getIndentUnit(editor)
getIndentUnit ==
    LET size == IF tabSize = 0 THEN DefaultTabSize ELSE tabSize
    IN  IF insertSpaces # FALSE THEN repeat(" ", size) ELSE << "\t" >>

\* calculateIndent(editor, document, currentLine)
calculateIndent(ls, currentLine) ==
    IF currentLine = 0 THEN <<>>
    ELSE LET prevLineInfo == findPreviousNonEmptyLine(ls, currentLine) IN
         IF prevLineInfo = -1 THEN <<>>
         ELSE LET prevText == ls[prevLineInfo + 1]
                  prevIndent == getIndentFromLine(prevText)
              IN  IF ~shouldIncreaseIndent(prevText) THEN prevIndent
                  ELSE prevIndent \o getIndentUnit

(***************************************************************************)
(* The host editor: positions, ranges, edit batches and notifications.     *)
(***************************************************************************)
Position(l, c) == [ line |-> l, character |-> c ]
Selection(anchor, active) == [ anchor |-> anchor, active |-> active ]
Cursor(l, c) == Selection(Position(l, c), Position(l, c))
isEmpty(sel) == sel.anchor = sel.active

isBefore(p, q) ==
    p.line < q.line \/ (p.line = q.line /\ p.character < q.character)

\* A range replacement: [start, end) and the replacement text as the lines
\* that splitting it at "\n" gives (one line: no line break inserted).
Edit(start, end, text) == [ start |-> start, end |-> end, text |-> text ]

\* document.validatePosition: a position past the last line is the end of
\* the document, a character past the end of a line is the end of the line.
validatePosition(ls, p) ==
    IF p.line >= Len(ls) THEN Position(Len(ls) - 1, Len(ls[Len(ls)]))
    ELSE IF p.character > Len(ls[p.line + 1])
         THEN Position(p.line, Len(ls[p.line + 1]))
         ELSE p

\* One replacement applied to a document.
applyEdit(ls, e) ==
    LET start == validatePosition(ls, e.start)
        end == validatePosition(ls, e.end)
        head == slice(ls[start.line + 1], 0, start.character)
        tail == sliceFrom(ls[end.line + 1], end.character)
        n == Len(e.text)
        middle == IF n = 1 THEN << head \o e.text[1] \o tail >>
                  ELSE << head \o e.text[1] >> \o SubSeq(e.text, 2, n - 1)
                           \o << e.text[n] \o tail >>
    IN  SubSeq(ls, 1, start.line) \o middle \o SubSeq(ls, end.line + 2, Len(ls))

removeAt(seq, i) == SubSeq(seq, 1, i - 1) \o SubSeq(seq, i + 1, Len(seq))

\* The ranges of a batch in the order editor.edit checks them: sorted by
\* their end and, with the same end, by their start; equal ranges in the
\* order they were added.
RECURSIVE sortByEnd(_)
sortByEnd(edits) ==
    IF edits = <<>> THEN <<>>
    ELSE LET first == CHOOSE i \in 1..Len(edits) :
                          \A j \in 1..Len(edits) :
                              \/ j = i
                              \/ isBefore(edits[i].end, edits[j].end)
                              \/ /\ edits[i].end = edits[j].end
                                 /\ isBefore(edits[i].start, edits[j].start)
                              \/ /\ edits[i].end = edits[j].end
                                 /\ edits[i].start = edits[j].start
                                 /\ i < j
         IN  << edits[first] >> \o sortByEnd(removeAt(edits, first))

\* editor.edit refuses a batch ("Overlapping ranges are not allowed") when,
\* in that order, a range starts before the range in front of it ends.
rangesOverlap(edits) ==
    LET ranges == sortByEnd(edits)
    IN  \E i \in 1..(Len(ranges) - 1) : isBefore(ranges[i + 1].start, ranges[i].end)

\* The edit of a batch that ends last (and, of those, starts last).
lastEdit(edits) ==
    CHOOSE i \in 1..Len(edits) :
        \A j \in 1..Len(edits) :
            \/ j = i
            \/ isBefore(edits[j].end, edits[i].end)
            \/ edits[j].end = edits[i].end /\ isBefore(edits[j].start, edits[i].start)
            \/ edits[j].end = edits[i].end /\ edits[j].start = edits[i].start /\ j < i

\* A batch of pairwise non-overlapping replacements, all in the coordinates
\* of the document before the batch: applied from the last one backwards.
RECURSIVE applyEdits(_, _)
applyEdits(ls, edits) ==
    IF edits = <<>> THEN ls
    ELSE LET i == lastEdit(edits)
         IN  applyEdits(applyEdit(ls, edits[i]), removeAt(edits, i))

\* The document with text inserted at (l, c) of one line.
insertAt(ls, l, c, text) ==
    [ ls EXCEPT ![l + 1] = slice(@, 0, c) \o text \o sliceFrom(@, c) ]

\* Selections with later duplicates dropped: the host merges cursors that
\* land on the same position.
RECURSIVE mergeCursors(_)
mergeCursors(sels) ==
    IF sels = <<>> THEN <<>>
    ELSE LET init == mergeCursors(SubSeq(sels, 1, Len(sels) - 1))
             last == sels[Len(sels)]
         IN  IF \E i \in 1..Len(init) : init[i] = last THEN init
             ELSE Append(init, last)

\* onDidChangeTextDocument / onDidChangeTextEditorSelection events on their
\* way to the extension.
DocumentChanged(u) == [ type |-> "document", uri |-> u, line |-> 0, character |-> 0 ]
SelectionChanged(u, sels) ==
    [ type |-> "selection", uri |-> u,
      line |-> sels[1].active.line, character |-> sels[1].active.character ]

\* The events one step of a handler causes: the document changed when an
\* edit was applied, the selection changed when the selections differ.
eventsOf(u, edited, oldSels, newSels) ==
    (IF edited THEN << DocumentChanged(u) >> ELSE <<>>)
        \o (IF newSels # oldSels THEN << SelectionChanged(u, newSels) >> ELSE <<>>)

(***************************************************************************)
(* The editor's state when the extension is activated and a document is    *)
(* open; every specification starts from it with its own set of documents. *)
(***************************************************************************)
Uris == { "a", "b" }
NoPos == [ line |-> -1, character |-> -1, atTrimmedEnd |-> FALSE ]
NoOp == [ kind |-> "none" ]

AllOn == [ indentEmptyLine |-> TRUE, toggleTrimmedEnd |-> TRUE,
           handleEmptyLine |-> TRUE, handleIndentZone |-> TRUE,
           autoInsertClosingBrace |-> TRUE, insertCommaOnEnter |-> TRUE,
           addWhitespaceAfterColon |-> TRUE, addQuotesToPropertyNames |-> TRUE ]

\* Every position of a document, the end of each line included.
Positions(ls) ==
    UNION { { Position(l, c) : c \in 0..Len(ls[l + 1]) } : l \in 0..(Len(ls) - 1) }

Activated ==
    /\ uri = "a"
    /\ languageId = "typescript"
    /\ tabSize = 2
    /\ insertSpaces = TRUE
    /\ config = AllOn
    /\ lastEndPositions = [ u \in Uris |-> NoPos ]
    /\ pending = <<>>
    /\ pc = "idle"
    /\ saved = NoOp
    /\ op = NoOp
    /\ prevLines = <<>>
    /\ prevSelections = <<>>
    /\ delivered = NoOp

(***************************************************************************)
(* What every handler leaves alone, and the bookkeeping of a key action.   *)
(***************************************************************************)
editorOptions == << uri, languageId, tabSize, insertSpaces, config >>

isBlank(lineText) == Len(trim(lineText)) = 0

\* A key action or a move of the user starts when no handler is suspended
\* and the notifications of what came before have been delivered: the host
\* sends notifications and commands to the extension over one ordered
\* channel.  Notifications raised by a handler's own edit arrive while the
\* handler is suspended in its await.
CanStart == pc = "idle" /\ pending = << >>

\* A step of a handler or of the user: not a delivery.
Acted ==
    /\ delivered' = NoOp
    /\ UNCHANGED << prevLines, prevSelections >>

\* The same, remembering the document and the selections it started from.
Started ==
    /\ delivered' = NoOp
    /\ prevLines' = lines
    /\ prevSelections' = selections

(***************************************************************************)
(* handlers/smartEndHandler.ts                                             *)
(***************************************************************************)

\* A slip: the state is left as it is.
resetState_Keep(positions, documentUri) == positions

\* A slip: the state of every document is dropped.
resetState_All(positions, documentUri) == [ u \in Uris |-> NoPos ]

\* resetState(documentUri)
resetState(positions, documentUri) == [ positions EXCEPT ![documentUri] = NoPos ]

\* A slip: only leaving the recorded line counts as a move away.
shouldResetOnCursorMove_LineOnly(documentUri, line, character) ==
    LET lastPos == lastEndPositions[documentUri]
    IN  IF lastPos = NoPos THEN FALSE
        ELSE line # lastPos.line

\* shouldResetOnCursorMove(documentUri, line, character)
shouldResetOnCursorMove(documentUri, line, character) ==
    LET lastPos == lastEndPositions[documentUri]
    IN  IF lastPos = NoPos THEN FALSE
        ELSE \/ line # lastPos.line
             \/ character - lastPos.character > 1
             \/ lastPos.character - character > 1

\* A slip: the third branch (already at the trimmed end, no usable state)
\* left out.
calculateTargetPosition_NoJump(lineText, currentChar, currentLine, documentUri) ==
    LET trimmedLength == trimEndLength(lineText)
        fullLength == Len(lineText)
        lastPos == lastEndPositions[documentUri]
        isAtEnd == /\ lastPos # NoPos
                   /\ lastPos.line = currentLine
                   /\ currentChar >= trimmedLength
    IN  IF isAtEnd /\ lastPos.atTrimmedEnd /\ currentChar = trimmedLength
        THEN [ position |-> fullLength, atTrimmedEnd |-> FALSE ]
        ELSE IF isAtEnd /\ ~lastPos.atTrimmedEnd /\ currentChar = fullLength
        THEN [ position |-> trimmedLength, atTrimmedEnd |-> TRUE ]
        ELSE [ position |-> trimmedLength, atTrimmedEnd |-> TRUE ]

\* calculateTargetPosition(lineText, currentChar, currentLine, documentUri)
calculateTargetPosition(lineText, currentChar, currentLine, documentUri) ==
    LET trimmedLength == trimEndLength(lineText)
        fullLength == Len(lineText)
        lastPos == lastEndPositions[documentUri]
        isAtEnd == /\ lastPos # NoPos
                   /\ lastPos.line = currentLine
                   /\ currentChar >= trimmedLength
    IN  IF isAtEnd /\ lastPos.atTrimmedEnd /\ currentChar = trimmedLength
        THEN [ position |-> fullLength, atTrimmedEnd |-> FALSE ]
        ELSE IF isAtEnd /\ ~lastPos.atTrimmedEnd /\ currentChar = fullLength
        THEN [ position |-> trimmedLength, atTrimmedEnd |-> TRUE ]
        ELSE IF currentChar = trimmedLength /\ trimmedLength < fullLength
        THEN [ position |-> fullLength, atTrimmedEnd |-> FALSE ]
        ELSE [ position |-> trimmedLength, atTrimmedEnd |-> TRUE ]

\* A slip: whether a selection is empty is not looked at.
canUseSmartBehavior_AnySelection ==
    \A i \in 1..Len(selections) :
        IF isBlank(lines[selections[i].active.line + 1])
        THEN config.indentEmptyLine
        ELSE config.toggleTrimmedEnd

\* execute: whether every selection can use the smart behaviour
canUseSmartBehavior ==
    \A i \in 1..Len(selections) :
        /\ isEmpty(selections[i])
        /\ IF isBlank(lines[selections[i].active.line + 1])
           THEN config.indentEmptyLine
           ELSE config.toggleTrimmedEnd

\* The columns of the last presses of End that followed one another on one
\* line with no other cursor move or edit in between (at most 3 kept).
endTrail(currentLine, currentChar, position) ==
    IF op.kind = "end" /\ op.path = "nonEmpty" /\ op.line = currentLine
    THEN LET t == Append(op.trail, position)
         IN  IF Len(t) > 3 THEN Tail(t) ELSE t
    ELSE << currentChar, position >>

\* execute, not every selection smart: the state is dropped and the host's
\* cursorEnd runs, which puts every cursor at the end of its line.
EndFallback ==
    /\ CanStart
    /\ ~canUseSmartBehavior
    /\ LET moved == mergeCursors(
               [ i \in 1..Len(selections) |->
                   Cursor(selections[i].active.line,
                          Len(lines[selections[i].active.line + 1])) ])
       IN  /\ lastEndPositions' = resetState(lastEndPositions, uri)
           /\ selections' = moved
           /\ pending' = pending \o eventsOf(uri, FALSE, selections, moved)
           /\ op' = [ kind |-> "end", path |-> "fallback", selections |-> selections ]
    /\ Acted
    /\ UNCHANGED << lines, editorOptions, pc, saved >>

\* execute, one cursor on a line with content: handleNonEmptyLine
EndNonEmptyLine ==
    /\ CanStart
    /\ canUseSmartBehavior
    /\ Len(selections) = 1
    /\ LET currentLine == selections[1].active.line
           currentChar == selections[1].active.character
           lineText == lines[currentLine + 1]
           target == calculateTargetPosition(lineText, currentChar, currentLine, uri)
           moved == << Cursor(currentLine, target.position) >>
       IN  /\ ~isBlank(lineText)
           /\ selections' = moved
           /\ lastEndPositions' =
                  [ lastEndPositions EXCEPT ![uri] =
                        [ line |-> currentLine, character |-> target.position,
                          atTrimmedEnd |-> target.atTrimmedEnd ] ]
           /\ pending' = pending \o eventsOf(uri, FALSE, selections, moved)
           /\ op' = [ kind |-> "end", path |-> "nonEmpty", line |-> currentLine,
                      trail |-> endTrail(currentLine, currentChar, target.position) ]
    /\ Acted
    /\ UNCHANGED << lines, editorOptions, pc, saved >>

\* execute, one cursor on an empty line: handleEmptyLine up to its await.
\* The line is replaced by the target indent; the host keeps the cursor on
\* the line.
EndEmptyLine ==
    /\ CanStart
    /\ canUseSmartBehavior
    /\ Len(selections) = 1
    /\ LET currentLine == selections[1].active.line
           lineText == lines[currentLine + 1]
           targetIndent == calculateIndent(lines, currentLine)
           edited == applyEdits(lines,
               << Edit(Position(currentLine, 0), Position(currentLine, Len(lineText)), << <<>> >>),
                  Edit(Position(currentLine, 0), Position(currentLine, 0), << targetIndent >>) >>)
           kept == << Selection(validatePosition(edited, selections[1].anchor),
                                validatePosition(edited, selections[1].active)) >>
       IN  /\ isBlank(lineText)
           /\ lines' = edited
           /\ selections' = kept
           /\ pending' = pending \o eventsOf(uri, Len(lineText) > 0 \/ Len(targetIndent) > 0,
                                             selections, kept)
           /\ saved' = [ kind |-> "end", currentLine |-> currentLine,
                         targetIndent |-> targetIndent, documentUri |-> uri ]
           /\ pc' = "handleEmptyLine"
    /\ Acted
    /\ UNCHANGED << editorOptions, lastEndPositions, op >>

\* handleEmptyLine after its await: the cursor is placed and the state stored.
EndEmptyLineResume ==
    /\ pc = "handleEmptyLine"
    /\ LET moved == << Cursor(saved.currentLine, Len(saved.targetIndent)) >>
       IN  /\ selections' = moved
           /\ pending' = pending \o eventsOf(saved.documentUri, FALSE, selections, moved)
           /\ lastEndPositions' =
                  [ lastEndPositions EXCEPT ![saved.documentUri] =
                        [ line |-> saved.currentLine,
                          character |-> Len(saved.targetIndent),
                          atTrimmedEnd |-> FALSE ] ]
    /\ op' = [ kind |-> "end", path |-> "emptyLine", line |-> saved.currentLine,
               late |-> pending ]
    /\ pc' = "idle"
    /\ saved' = NoOp
    /\ Acted
    /\ UNCHANGED << lines, editorOptions >>

\* execute, several cursors: the edits and targets of every cursor
endMultiEdits ==
    LET blank == { i \in 1..Len(selections) : isBlank(lines[selections[i].active.line + 1]) }
        editOf(i) ==
            LET currentLine == selections[i].active.line
            IN  Edit(Position(currentLine, 0),
                     Position(currentLine, Len(lines[currentLine + 1])),
                     << calculateIndent(lines, currentLine) >>)
        RECURSIVE collect(_)
        collect(i) == IF i > Len(selections) THEN <<>>
                      ELSE (IF i \in blank THEN << editOf(i) >> ELSE <<>>) \o collect(i + 1)
    IN  collect(1)

endMultiPositions ==
    [ i \in 1..Len(selections) |->
        LET currentLine == selections[i].active.line
            currentChar == selections[i].active.character
            lineText == lines[currentLine + 1]
        IN  IF isBlank(lineText)
            THEN Cursor(currentLine, Len(calculateIndent(lines, currentLine)))
            ELSE Cursor(currentLine,
                        calculateTargetPosition(lineText, currentChar, currentLine, uri).position) ]

\* execute, several cursors, all smart: one batch of edits, all cursors
\* placed, the state dropped.  A batch the host refuses (two cursors on one
\* empty line) makes execute throw before anything is changed.
EndMultiCursor ==
    /\ CanStart
    /\ canUseSmartBehavior
    /\ Len(selections) > 1
    /\ IF rangesOverlap(endMultiEdits)
       THEN /\ op' = [ kind |-> "end", path |-> "rejected" ]
            /\ UNCHANGED << lines, selections, lastEndPositions, pending >>
       ELSE LET moved == mergeCursors(endMultiPositions)
            IN  /\ lines' = applyEdits(lines, endMultiEdits)
                /\ selections' = moved
                /\ lastEndPositions' = resetState(lastEndPositions, uri)
                /\ pending' = pending \o eventsOf(uri, endMultiEdits # <<>>, selections, moved)
                /\ op' = [ kind |-> "end", path |-> "multi", lines |-> lines,
                           selections |-> selections,
                           state |-> lastEndPositions[uri] ]
    /\ Acted
    /\ UNCHANGED << editorOptions, pc, saved >>

(***************************************************************************)
(* extension.ts: the two listeners that drop the End state.                *)
(***************************************************************************)

\* A slip: no tolerance, any cursor event off the recorded column resets.
afterNotification_NoTolerance(n) ==
    IF n.type = "document" THEN resetState(lastEndPositions, n.uri)
    ELSE IF lastEndPositions[n.uri] # NoPos
            /\ (n.line # lastEndPositions[n.uri].line
                \/ n.character # lastEndPositions[n.uri].character)
         THEN resetState(lastEndPositions, n.uri)
         ELSE lastEndPositions

\* A slip: an edit of the document leaves the state as it is.
afterNotification_IgnoreEdits(n) ==
    IF n.type = "document" THEN lastEndPositions
    ELSE IF shouldResetOnCursorMove(n.uri, n.line, n.character)
         THEN resetState(lastEndPositions, n.uri)
         ELSE lastEndPositions

\* registerDocumentChangeHandler / registerCursorChangeHandler: the state
\* after the listener for notification n has run.
afterNotification(n) ==
    IF n.type = "document" THEN resetState(lastEndPositions, n.uri)
    ELSE IF shouldResetOnCursorMove(n.uri, n.line, n.character)
         THEN resetState(lastEndPositions, n.uri)
         ELSE lastEndPositions

\* The host delivers the oldest pending notification.
Deliver ==
    /\ pending # <<>>
    /\ lastEndPositions' = afterNotification(Head(pending))
    /\ pending' = Tail(pending)
    /\ delivered' = [ note |-> Head(pending),
                      before |-> lastEndPositions[Head(pending).uri],
                      after |-> lastEndPositions'[Head(pending).uri] ]
    /\ UNCHANGED << lines, selections, editorOptions, pc, saved, op, prevLines,
                    prevSelections >>

(***************************************************************************)
(* The user, between key actions.                                          *)
(***************************************************************************)

\* The user puts the single cursor somewhere else.
MoveCursor ==
    /\ CanStart
    /\ \E p \in Positions(lines) :
          /\ selections' = << Cursor(p.line, p.character) >>
          /\ selections' # selections
          /\ pending' = pending \o << SelectionChanged(uri, selections') >>
    /\ op' = [ kind |-> "move" ]
    /\ Acted
    /\ UNCHANGED << lines, editorOptions, lastEndPositions, pc, saved >>

\* The user adds a second cursor on the line below the single cursor, at
\* the same column or at the end of that line if it is shorter.
AddCursor ==
    /\ CanStart
    /\ Len(selections) = 1
    /\ isEmpty(selections[1])
    /\ selections[1].active.line + 1 < Len(lines)
    /\ LET below == selections[1].active.line + 1
           column == selections[1].active.character
           length == Len(lines[below + 1])
       IN  selections' = Append(selections,
               Cursor(below, IF column < length THEN column ELSE length))
    /\ pending' = Append(pending, SelectionChanged(uri, selections'))
    /\ op' = [ kind |-> "move" ]
    /\ Acted
    /\ UNCHANGED << lines, editorOptions, lastEndPositions, pc, saved >>

\* The user extends the primary selection back to the start of its line.
SelectToLineStart ==
    /\ CanStart
    /\ isEmpty(selections[1])
    /\ selections[1].active.character > 0
    /\ selections' = [ selections EXCEPT ![1].anchor = Position(@.line, 0) ]
    /\ pending' = Append(pending, SelectionChanged(uri, selections'))
    /\ op' = [ kind |-> "move" ]
    /\ Acted
    /\ UNCHANGED << lines, editorOptions, lastEndPositions, pc, saved >>

\* The user types a character at the single cursor.
TypeChar ==
    /\ CanStart
    /\ Len(selections) = 1
    /\ isEmpty(selections[1])
    /\ Len(lines[selections[1].active.line + 1]) < MaxLineLen
    /\ \E c \in { " ", "x" } :
          LET at == selections[1].active
          IN  /\ lines' = insertAt(lines, at.line, at.character, << c >>)
              /\ selections' = << Cursor(at.line, at.character + 1) >>
              /\ pending' = pending \o eventsOf(uri, TRUE, selections, selections')
    /\ op' = [ kind |-> "type" ]
    /\ Acted
    /\ UNCHANGED << editorOptions, lastEndPositions, pc, saved >>

(***************************************************************************)
(* SpecEnd: the End key, cursor moves and edits on every small document.   *)
(***************************************************************************)
EndChars == { " ", "x" }
EndDocs == DocsUpTo(TextsUpTo(EndChars, MaxLineLen), MaxLines)

InitEnd ==
    /\ Activated
    /\ lines \in EndDocs
    /\ \E p \in Positions(lines) : selections = << Cursor(p.line, p.character) >>

NextEnd ==
    \/ EndFallback
    \/ EndNonEmptyLine
    \/ EndEmptyLine
    \/ EndEmptyLineResume
    \/ EndMultiCursor
    \/ Deliver
    \/ MoveCursor
    \/ AddCursor
    \/ SelectToLineStart
    \/ TypeChar

SpecEnd == InitEnd /\ [][NextEnd]_vars

(***************************************************************************)
(* Claims about the End key.                                               *)
(***************************************************************************)

\* C1: on a line with content whose trimmed end is before its full end,
\* presses of End that follow one another with no other cursor move or edit
\* in between alternate: from the trimmed end to the full end, from the full
\* end to the trimmed end, so two presses from the trimmed end return to it;
\* the cursor is where the last press put it.
C1_EndToggleCycle ==
    (op.kind = "end" /\ op.path = "nonEmpty") =>
        LET lineText == lines[op.line + 1]
            trimmedLength == trimEndLength(lineText)
            fullLength == Len(lineText)
        IN  /\ selections = << Cursor(op.line, op.trail[Len(op.trail)]) >>
            /\ trimmedLength < fullLength =>
                  \A i \in 1..(Len(op.trail) - 1) :
                      /\ op.trail[i] = trimmedLength => op.trail[i + 1] = fullLength
                      /\ op.trail[i] = fullLength => op.trail[i + 1] = trimmedLength

\* C1's case: two presses from the trimmed end of a line with trailing
\* whitespace, back at the trimmed end.
C1_Witness ==
    /\ op.kind = "end" /\ op.path = "nonEmpty"
    /\ trimEndLength(lines[op.line + 1]) < Len(lines[op.line + 1])
    /\ op.trail = << trimEndLength(lines[op.line + 1]), Len(lines[op.line + 1]),
                     trimEndLength(lines[op.line + 1]) >>

\* C2: a document-changed notification drops the recorded state of its
\* document; a selection-changed notification drops it when the cursor is on
\* another line than the recorded one or more than one character from the
\* recorded one, and leaves it as it is otherwise.
C2_ResetRule ==
    delivered # NoOp =>
        /\ delivered.note.type = "document" => delivered.after = NoPos
        /\ (delivered.note.type = "selection" /\ delivered.before # NoPos) =>
              IF \/ delivered.note.line # delivered.before.line
                 \/ delivered.note.character - delivered.before.character > 1
                 \/ delivered.before.character - delivered.note.character > 1
              THEN delivered.after = NoPos
              ELSE delivered.after = delivered.before

\* C2's case: with a state recorded, the cursor moved one character along
\* the recorded line and the state was kept.
C2_Witness ==
    /\ delivered # NoOp
    /\ delivered.note.type = "selection"
    /\ delivered.before # NoPos
    /\ delivered.note.line = delivered.before.line
    /\ delivered.note.character = delivered.before.character + 1
    /\ delivered.after = delivered.before

\* Where End puts a cursor at currentChar of a line with content when
\* nothing is recorded: the full end from the trimmed end of a line with
\* trailing whitespace, the trimmed end from anywhere else.
statelessEnd(lineText, currentChar) ==
    IF currentChar = trimEndLength(lineText) /\ trimEndLength(lineText) < Len(lineText)
    THEN Len(lineText)
    ELSE trimEndLength(lineText)

\* C11: an End action with several cursors that completes puts every cursor
\* where it would go with no toggle state recorded (on a line with content
\* the stateless target, on an empty line the end of its indent), whatever
\* state was recorded before the press, and leaves no toggle state recorded
\* for the document.
C11_MultiCursorStateless ==
    (op.kind = "end" /\ op.path = "multi") =>
        /\ lastEndPositions[uri] = NoPos
        /\ selections = mergeCursors(
               [ i \in 1..Len(op.selections) |->
                   LET currentLine == op.selections[i].active.line
                       lineText == op.lines[currentLine + 1]
                   IN  IF isBlank(lineText)
                       THEN Cursor(currentLine, Len(calculateIndent(op.lines, currentLine)))
                       ELSE Cursor(currentLine,
                                   statelessEnd(lineText, op.selections[i].active.character)) ])

\* C11's case: End with two cursors while a state is recorded for the line
\* of one of them, that cursor at or after the trimmed end of its line.
C11_Witness ==
    /\ op.kind = "end" /\ op.path = "multi"
    /\ op.state # NoPos
    /\ \E i \in 1..Len(op.selections) :
          /\ op.selections[i].active.line = op.state.line
          /\ op.selections[i].active.character
                 >= trimEndLength(op.lines[op.state.line + 1])
          /\ trimEndLength(op.lines[op.state.line + 1]) < Len(op.lines[op.state.line + 1])

\* A step in which a press of End starts: no other step that starts from
\* rest leaves an End action as the last one or suspends handleEmptyLine.
endPressed ==
    /\ CanStart
    /\ op'.kind = "end" \/ pc' = "handleEmptyLine"

BraceChars == { "{", "}", "x" }
BraceDocs == DocsUpTo(TextsUpTo(BraceChars, MaxLineLen), MaxLines)

InitBrace ==
    /\ Activated
    /\ lines \in BraceDocs
    /\ selections = << Cursor(0, 0) >>

\* shouldInsertClosingBrace(lines, targetLine, targetChar) and
\* isBraceUnmatched(lines, targetLine, targetChar), for any target, in or out
\* of the document.
QueryShouldInsertClosingBrace ==
    /\ op = NoOp
    /\ \E targetLine \in -1..Len(lines), targetChar \in -1..MaxLineLen :
        /\ op' = [ kind |-> "shouldInsertClosingBrace",
                   targetLine |-> targetLine, targetChar |-> targetChar,
                   ret |-> shouldInsertClosingBrace(lines, targetLine, targetChar),
                   unmatched |-> isBraceUnmatched(lines, targetLine, targetChar) ]
        /\ UNCHANGED << lines, selections, uri, languageId, tabSize, insertSpaces,
                        config, lastEndPositions, pending, pc, saved, prevLines,
                        prevSelections, delivered >>

\* countUnmatchedBraces before and after a matched pair "{}" is inserted
\* at any position of the document.
QueryCountWithPair ==
    /\ op = NoOp
    /\ \E p \in Positions(lines) :
        /\ op' = [ kind |-> "insertPair", at |-> p, added |-> 1,
                   before |-> countUnmatchedBraces(lines),
                   after |-> countUnmatchedBraces(
                       insertAt(lines, p.line, p.character, << "{", "}" >>)) ]
        /\ UNCHANGED << lines, selections, uri, languageId, tabSize, insertSpaces,
                        config, lastEndPositions, pending, pc, saved, prevLines,
                        prevSelections, delivered >>

\* countUnmatchedBraces before and after k closing braces are appended at
\* the end of the document.
QueryCountWithClosing ==
    /\ op = NoOp
    /\ \E k \in 1..MaxAppend :
        /\ op' = [ kind |-> "appendClosing",
                   at |-> Position(Len(lines) - 1, Len(lines[Len(lines)])),
                   added |-> k,
                   before |-> countUnmatchedBraces(lines),
                   after |-> countUnmatchedBraces(
                       insertAt(lines, Len(lines) - 1, Len(lines[Len(lines)]),
                                repeat("}", k))) ]
        /\ UNCHANGED << lines, selections, uri, languageId, tabSize, insertSpaces,
                        config, lastEndPositions, pending, pc, saved, prevLines,
                        prevSelections, delivered >>

NextBrace ==
    \/ QueryShouldInsertClosingBrace
    \/ QueryCountWithPair
    \/ QueryCountWithClosing

SpecBrace == InitBrace /\ [][NextBrace]_vars

(***************************************************************************)
(* Claims about the brace matcher.                                         *)
(***************************************************************************)

\* Whether (l, c) holds "{" in ls.
holdsOpeningBrace(ls, l, c) ==
    /\ l >= 0 /\ l < Len(ls)
    /\ c >= 0 /\ c < Len(ls[l + 1])
    /\ ls[l + 1][c + 1] = "{"

\* C3: for every document and every position holding "{",
\* shouldInsertClosingBrace is true exactly when the brace is unmatched or
\* removing that one character strictly decreases countUnmatchedBraces.
C3_ShouldInsertIff ==
    (op.kind = "shouldInsertClosingBrace"
        /\ holdsOpeningBrace(lines, op.targetLine, op.targetChar))
    => (op.ret <=>
            \/ isBraceUnmatched(lines, op.targetLine, op.targetChar)
            \/ countUnmatchedBraces(removeCharAt(lines, op.targetLine, op.targetChar))
                   < countUnmatchedBraces(lines))

\* C3's case: a matched "{" whose removal lowers the count, answered true.
C3_Witness ==
    /\ op.kind = "shouldInsertClosingBrace"
    /\ holdsOpeningBrace(lines, op.targetLine, op.targetChar)
    /\ ~isBraceUnmatched(lines, op.targetLine, op.targetChar)
    /\ op.ret

\* C4 as stated: countUnmatchedBraces is unchanged by inserting a matched
\* pair anywhere and by appending any number of "}" at the end.
C4_Original ==
    op.kind \in { "insertPair", "appendClosing" } => op.after = op.before

\* C4 as amended: a matched pair inserted anywhere leaves the count unchanged;
\* k closing braces appended at the end lower it by k, but never below 0, so
\* they leave it unchanged exactly when the document has no unmatched "{".
C4_PairAndClosing ==
    /\ op.kind = "insertPair" => op.after = op.before
    /\ op.kind = "appendClosing" =>
           /\ op.after = (IF op.before > op.added THEN op.before - op.added ELSE 0)
           /\ (op.after = op.before <=> op.before = 0)

\* C4's case: closing braces appended to a document that has braces, all of
\* them matched.
C4_Witness ==
    /\ op.kind = "appendClosing" /\ op.before = 0 /\ op.added = MaxAppend
    /\ \E l \in 1..Len(lines) : indexOf(lines[l], "{") # -1

\* The text of the lines from line number l on, in reading order.
RECURSIVE textFrom(_, _)
textFrom(ls, l) == IF l >= Len(ls) THEN <<>> ELSE ls[l + 1] \o textFrom(ls, l + 1)

\* Whether no stretch that starts at the head of text holds more "}" than
\* "{", given the surplus of "{" so far.
RECURSIVE neverMoreClosing(_, _)
neverMoreClosing(text, surplus) ==
    IF text = <<>> THEN TRUE
    ELSE IF Head(text) = "{" THEN neverMoreClosing(Tail(text), surplus + 1)
    ELSE IF Head(text) # "}" THEN neverMoreClosing(Tail(text), surplus)
    ELSE surplus > 0 /\ neverMoreClosing(Tail(text), surplus - 1)

\* Whether the "{" at (l, c) is still on the stack when the LIFO scan of the
\* whole document ends: an entry is popped by the first "}" behind it that
\* finds it on top, so it stays exactly when no stretch of text that starts
\* right behind it holds more "}" than "{".
staysOnStack(ls, l, c) ==
    /\ holdsOpeningBrace(ls, l, c)
    /\ neverMoreClosing(sliceFrom(ls[l + 1], c + 1) \o textFrom(ls, l + 1), 0)

\* C16: isBraceUnmatched(lines, targetLine, targetChar) is true exactly when
\* the entry (targetLine, targetChar) is left on the stack by the scan of the
\* whole document that pushes every "{" and pops, if it can, on every "}".
C16_UnmatchedIffLeftOnStack ==
    op.kind = "shouldInsertClosingBrace" =>
        (op.unmatched <=> staysOnStack(lines, op.targetLine, op.targetChar))

\* C16's case: the brace asked about is left on the stack, below another
\* entry, and a "}" behind it popped a third one.
C16_Witness ==
    /\ op.kind = "shouldInsertClosingBrace"
    /\ op.unmatched
    /\ countUnmatchedBraces(lines) = 2
    /\ \E l \in 0..(Len(lines) - 1), c \in 0..(MaxLineLen - 1) :
          /\ isBefore(Position(op.targetLine, op.targetChar), Position(l, c))
          /\ staysOnStack(lines, l, c)
    /\ \E l \in 0..(Len(lines) - 1), c \in 0..(MaxLineLen - 1) :
          /\ isBefore(Position(op.targetLine, op.targetChar), Position(l, c))
          /\ c < Len(lines[l + 1])
          /\ lines[l + 1][c + 1] = "}"

\* C17: for a target line or character that is negative or at or after the
\* end, and for a position that holds another character than "{",
\* isBraceUnmatched and shouldInsertClosingBrace answer false.
C17_OutOfBoundsIsFalse ==
    (op.kind = "shouldInsertClosingBrace"
        /\ ~holdsOpeningBrace(lines, op.targetLine, op.targetChar))
    => (op.ret = FALSE /\ op.unmatched = FALSE)

\* C17's case: the two asked about a column outside a line that holds an
\* unmatched brace.
C17_Witness ==
    /\ op.kind = "shouldInsertClosingBrace"
    /\ op.targetLine >= 0 /\ op.targetLine < Len(lines)
    /\ op.targetChar = -1 \/ op.targetChar >= Len(lines[op.targetLine + 1])
    /\ \E c \in 0..(MaxLineLen - 1) : staysOnStack(lines, op.targetLine, c)
    /\ op.ret = FALSE /\ op.unmatched = FALSE

(***************************************************************************)
(* utils/jsonHelpers.ts, handlers/smartJsonCommaHandler.ts                 *)
(***************************************************************************)

\* isJsonDocument(document)
isJsonDocument == languageId \in { "json", "jsonc" }

IsDigit(c) == c \in { "0", "1", "2", "3", "4", "5", "6", "7", "8", "9" }

\* A slip: a line that ends an object value is not taken as a value.
lineNeedsComma_NoObjectValue(lineText) ==
    LET trimmed == trim(lineText)
    IN  /\ Len(trimmed) > 0
        /\ ~endsWith(trimmed, << "," >>)
        /\ indexOf(trimmed, ":") # -1
        /\ \/ endsWith(trimmed, << "\"" >>)
           \/ endsWith(trimmed, << "]" >>)
           \/ IsDigit(trimmed[Len(trimmed)])

\* lineNeedsComma(lineText)
lineNeedsComma(lineText) ==
    LET trimmed == trim(lineText)
    IN  IF Len(trimmed) = 0 THEN FALSE
        ELSE IF endsWith(trimmed, << "," >>) THEN FALSE
        ELSE IF indexOf(trimmed, ":") = -1 THEN FALSE
        ELSE \/ endsWith(trimmed, << "\"" >>)
             \/ endsWith(trimmed, << "}" >>)
             \/ endsWith(trimmed, << "]" >>)
             \/ IsDigit(trimmed[Len(trimmed)])
             \/ endsWith(trimmed, << "t", "r", "u", "e" >>)
             \/ endsWith(trimmed, << "f", "a", "l", "s", "e" >>)
             \/ endsWith(trimmed, << "n", "u", "l", "l" >>)

\* Whether SmartJsonCommaHandler.execute, called by Enter, reaches its edit:
\* the option is on, the document is JSON, the primary selection is empty
\* and its line needs a comma.
commaApplies(ls, sels) ==
    /\ isJsonDocument
    /\ config.insertCommaOnEnter
    /\ isEmpty(sels[1])
    /\ lineNeedsComma(ls[sels[1].active.line + 1])

\* A position after n characters were inserted at position at of its line:
\* positions at or behind the insertion move along with the text.
positionAfterInsert(p, at, n) ==
    IF p.line = at.line /\ p.character >= at.character
    THEN Position(p.line, p.character + n)
    ELSE p

selectionAfterInsert(sel, at, n) ==
    Selection(positionAfterInsert(sel.anchor, at, n), positionAfterInsert(sel.active, at, n))

(***************************************************************************)
(* utils/editorCommands.ts: insertNewLine, the host's own Enter.  The      *)
(* host replaces every selection by a line break and leaves each cursor at *)
(* the start of its new line; the indentation the host then adds to the    *)
(* new line depends on the language configuration and is left out.         *)
(***************************************************************************)
rangeStart(sel) == IF isBefore(sel.active, sel.anchor) THEN sel.active ELSE sel.anchor
rangeEnd(sel) == IF isBefore(sel.active, sel.anchor) THEN sel.anchor ELSE sel.active

insertNewLine(ls, sels) ==
    LET edits == [ i \in 1..Len(sels) |->
                     Edit(rangeStart(sels[i]), rangeEnd(sels[i]), << <<>>, <<>> >>) ]
        breaksBefore(i) ==
            Cardinality({ j \in 1..Len(sels) :
                            isBefore(rangeStart(sels[j]), rangeStart(sels[i])) })
    IN  [ lines |-> applyEdits(ls, edits),
          selections |-> [ i \in 1..Len(sels) |->
                             Cursor(rangeStart(sels[i]).line + 1 + breaksBefore(i), 0) ] ]

(***************************************************************************)
(* handlers/smartEnterHandler.ts                                           *)
(***************************************************************************)

\* The index of the "{" that ends the text before the cursor once trailing
\* whitespace is dropped, or -1 when that text is blank or ends otherwise.
braceCharIndex(ls, selection) ==
    LET originalText == ls[selection.active.line + 1]
        textUpToCursor == slice(originalText, 0, selection.active.character)
        trimmedLine == trimEnd(textUpToCursor)
    IN  IF Len(trimmedLine) = 0 THEN -1
        ELSE IF trimmedLine[Len(trimmedLine)] # "{" THEN -1
        ELSE Len(trimmedLine) - 1

\* documentLines: the document with the current line cut after the brace.
documentLines(ls, currentLine, braceIndex) ==
    [ ls EXCEPT ![currentLine + 1] = slice(@, 0, braceIndex + 1) ]

\* canExpandBrace(document, selection)
canExpandBrace(ls, selection) ==
    LET braceIndex == braceCharIndex(ls, selection)
    IN  IF braceIndex = -1 THEN FALSE
        ELSE shouldInsertClosingBrace(
                 documentLines(ls, selection.active.line, braceIndex),
                 selection.active.line, braceIndex)

\* A slip: one cursor that can expand is taken to be enough.
allCanExpand_Some(ls, sels) ==
    /\ config.autoInsertClosingBrace
    /\ \E i \in 1..Len(sels) : canExpandBrace(ls, sels[i])

\* allCanExpand of the multi-cursor gate
allCanExpand(ls, sels) ==
    /\ config.autoInsertClosingBrace
    /\ \A i \in 1..Len(sels) : canExpandBrace(ls, sels[i])

\* The branch execute takes once the comma handler is done.
enterPath(ls, sels) ==
    IF Len(sels) > 1
    THEN IF \E i \in 1..Len(sels) : ~isEmpty(sels[i]) THEN "newline"
         ELSE IF ~allCanExpand(ls, sels) THEN "newline"
         ELSE "multi"
    ELSE IF ~isEmpty(sels[1]) THEN "newline"
    ELSE LET currentLine == sels[1].active.line
             braceIndex == braceCharIndex(ls, sels[1])
         IN  IF braceIndex = -1 \/ ~config.autoInsertClosingBrace THEN "newline"
             ELSE IF ~shouldInsertClosingBrace(
                          documentLines(ls, currentLine, braceIndex),
                          currentLine, braceIndex)
                  THEN "newline"
                  ELSE "expand"

\* A slip: the line for the cursor is left out of the replacement.
replacementText_NoInnerLine(innerIndent, baseIndent, contentToPreserve) ==
    << <<>>, baseIndent \o << "}" >> \o contentToPreserve >>

\* replacementText = `\n${innerIndent}\n${baseIndent}}${contentToPreserve}`
replacementText(innerIndent, baseIndent, contentToPreserve) ==
    << <<>>, innerIndent, baseIndent \o << "}" >> \o contentToPreserve >>

\* A slip: the cursor is put behind the indentation of the brace's line.
expansionEdit_CursorAtBase(ls, selection) ==
    LET currentLine == selection.active.line
        originalText == ls[currentLine + 1]
        braceIndex == trimEndLength(slice(originalText, 0, selection.active.character)) - 1
        baseIndent == getIndentFromLine(originalText)
        innerIndent == baseIndent \o getIndentUnit
        contentAfterBrace == sliceFrom(originalText, braceIndex + 1)
        closingBraceIndex == indexOf(contentAfterBrace, "}")
        contentToPreserve == IF closingBraceIndex # -1
                             THEN sliceFrom(contentAfterBrace, closingBraceIndex + 1)
                             ELSE <<>>
    IN  [ start |-> Position(currentLine, braceIndex + 1),
          end |-> Position(currentLine, Len(originalText)),
          text |-> replacementText(innerIndent, baseIndent, contentToPreserve),
          newCursorLine |-> currentLine + 1,
          newCursorChar |-> Len(baseIndent) ]

\* The edit that expands the brace before one cursor, with the position the
\* cursor is to take in it.
expansionEdit(ls, selection) ==
    LET currentLine == selection.active.line
        originalText == ls[currentLine + 1]
        braceIndex == trimEndLength(slice(originalText, 0, selection.active.character)) - 1
        baseIndent == getIndentFromLine(originalText)
        innerIndent == baseIndent \o getIndentUnit
        contentAfterBrace == sliceFrom(originalText, braceIndex + 1)
        closingBraceIndex == indexOf(contentAfterBrace, "}")
        contentToPreserve == IF closingBraceIndex # -1
                             THEN sliceFrom(contentAfterBrace, closingBraceIndex + 1)
                             ELSE <<>>
    IN  [ start |-> Position(currentLine, braceIndex + 1),
          end |-> Position(currentLine, Len(originalText)),
          text |-> replacementText(innerIndent, baseIndent, contentToPreserve),
          newCursorLine |-> currentLine + 1,
          newCursorChar |-> Len(innerIndent) ]

\* [...selections].sort: bottom to top, right to left; equal cursors keep
\* their order.
RECURSIVE sortedSelections(_)
sortedSelections(sels) ==
    IF sels = <<>> THEN <<>>
    ELSE LET first == CHOOSE i \in 1..Len(sels) :
                          \A j \in 1..Len(sels) :
                              \/ j = i
                              \/ isBefore(sels[j].active, sels[i].active)
                              \/ sels[j].active = sels[i].active /\ i < j
         IN  << sels[first] >> \o sortedSelections(removeAt(sels, first))

RECURSIVE sumLinesAdded(_)
sumLinesAdded(edits) ==
    IF edits = <<>> THEN 0
    ELSE (Len(edits[1].text) - 1) + sumLinesAdded(Tail(edits))

\* A slip: the lines the other expansions add are not counted.
linesAddedBelow_None(edits, index) == 0

\* A slip: the edits in front of this one in the array are counted, which
\* are the edits further down in the document.
linesAddedBelow_Front(edits, index) ==
    sumLinesAdded(SubSeq(edits, 1, index - 1))

\* linesAddedBelow: the lines added by the edits behind this one in the
\* array, which are the edits above it in the document.
linesAddedBelow(edits, index) ==
    sumLinesAdded(SubSeq(edits, index + 1, Len(edits)))

reverse(seq) == [ i \in 1..Len(seq) |-> seq[Len(seq) + 1 - i] ]

\* newCursorPositions.reverse() of executeMultiCursor
newCursorPositions(edits) ==
    reverse([ index \in 1..Len(edits) |->
                Cursor(edits[index].newCursorLine + linesAddedBelow(edits, index),
                       edits[index].newCursorChar) ])

\* SpecEnter follows one press of Enter: execute starts from the state of
\* Init, or resumes behind the await of the comma handler.
enterStarts ==
    \/ pc = "idle" /\ op = NoOp /\ pending = << >> /\ ~commaApplies(lines, selections)
    \/ pc = "enterBraceLogic"

\* const selections = editor.selections, read before the comma handler runs.
capturedSelections == IF pc = "enterBraceLogic" THEN saved.selections ELSE selections

batchesSoFar == IF pc = "enterBraceLogic" THEN op.batches ELSE 0

enterBookkeeping == IF pc = "enterBraceLogic" THEN Acted ELSE Started

\* A slip: the comma is put at the end of the line.
EnterJsonComma_AtLineEnd ==
    /\ pc = "idle" /\ op = NoOp /\ pending = << >>
    /\ commaApplies(lines, selections)
    /\ LET currentLine == selections[1].active.line
           commaPosition == Position(currentLine, Len(lines[currentLine + 1]))
       IN  /\ lines' = applyEdits(lines,
                           << Edit(commaPosition, commaPosition, << << "," >> >>) >>)
           /\ selections' = [ i \in 1..Len(selections) |->
                                selectionAfterInsert(selections[i], commaPosition, 1) ]
    /\ pending' = pending \o eventsOf(uri, TRUE, selections, selections')
    /\ pc' = "enterBraceLogic"
    /\ saved' = [ kind |-> "enter", selections |-> selections ]
    /\ op' = [ kind |-> "enter", path |-> "comma", batches |-> 1, planFrom |-> lines ]
    /\ Started
    /\ UNCHANGED << editorOptions, lastEndPositions >>

\* execute up to the await of the comma handler's edit: the comma goes
\* behind the last non-whitespace character of the primary cursor's line.
EnterJsonComma ==
    /\ pc = "idle" /\ op = NoOp /\ pending = << >>
    /\ commaApplies(lines, selections)
    /\ LET currentLine == selections[1].active.line
           trimmedLength == trimEndLength(lines[currentLine + 1])
           commaPosition == Position(currentLine, trimmedLength)
       IN  /\ lines' = applyEdits(lines,
                           << Edit(commaPosition, commaPosition, << << "," >> >>) >>)
           /\ selections' = [ i \in 1..Len(selections) |->
                                selectionAfterInsert(selections[i], commaPosition, 1) ]
    /\ pending' = pending \o eventsOf(uri, TRUE, selections, selections')
    /\ pc' = "enterBraceLogic"
    /\ saved' = [ kind |-> "enter", selections |-> selections ]
    /\ op' = [ kind |-> "enter", path |-> "comma", batches |-> 1, planFrom |-> lines ]
    /\ Started
    /\ UNCHANGED << editorOptions, lastEndPositions >>

\* execute, every branch that ends in insertNewLine(): the host breaks the
\* line at the selections as they are now.
EnterDefaultNewline ==
    /\ enterStarts
    /\ enterPath(lines, capturedSelections) = "newline"
    /\ lines' = insertNewLine(lines, selections).lines
    /\ selections' = insertNewLine(lines, selections).selections
    /\ pending' = pending \o eventsOf(uri, TRUE, selections, selections')
    /\ pc' = "idle"
    /\ saved' = NoOp
    /\ op' = [ kind |-> "enter", path |-> "newline", batches |-> batchesSoFar + 1,
               planFrom |-> lines ]
    /\ enterBookkeeping
    /\ UNCHANGED << editorOptions, lastEndPositions >>

\* execute, single cursor behind a brace to expand: one replacement from
\* the brace to the end of the line, then setCursorPosition.
EnterExpandBrace ==
    /\ enterStarts
    /\ enterPath(lines, capturedSelections) = "expand"
    /\ LET edit == expansionEdit(lines, capturedSelections[1])
       IN  /\ lines' = applyEdits(lines, << edit >>)
           /\ selections' = << Cursor(edit.newCursorLine, edit.newCursorChar) >>
    /\ pending' = pending \o eventsOf(uri, TRUE, selections, selections')
    /\ pc' = "idle"
    /\ saved' = NoOp
    /\ op' = [ kind |-> "enter", path |-> "expand", batches |-> batchesSoFar + 1,
               planFrom |-> lines ]
    /\ enterBookkeeping
    /\ UNCHANGED << editorOptions, lastEndPositions >>

\* executeMultiCursor: one edit per cursor, all in one batch, then
\* setCursorPositions; a batch the editor refuses ends the command with
\* nothing changed.
EnterMultiCursor ==
    /\ enterStarts
    /\ enterPath(lines, capturedSelections) = "multi"
    /\ LET sorted == sortedSelections(capturedSelections)
           edits == [ i \in 1..Len(sorted) |-> expansionEdit(lines, sorted[i]) ]
       IN  IF rangesOverlap(edits)
           THEN /\ op' = [ kind |-> "enter", path |-> "rejected",
                           batches |-> batchesSoFar, planFrom |-> lines ]
                /\ UNCHANGED << lines, selections, pending >>
           ELSE /\ lines' = applyEdits(lines, edits)
                /\ selections' = mergeCursors(newCursorPositions(edits))
                /\ pending' = pending \o eventsOf(uri, TRUE, selections, selections')
                /\ op' = [ kind |-> "enter", path |-> "multi",
                           batches |-> batchesSoFar + 1, planFrom |-> lines ]
    /\ pc' = "idle"
    /\ saved' = NoOp
    /\ enterBookkeeping
    /\ UNCHANGED << editorOptions, lastEndPositions >>

(***************************************************************************)
(* SpecEnter: one press of Enter on every small document, with one or two  *)
(* cursors, in a TypeScript or a JSON document, the brace option on or off.*)
(***************************************************************************)
MaxEnterChars == 3

\* What Enter tells apart in program text: braces and whitespace; in JSON:
\* the colon of a property and the braces of an object value.
EnterChars == { "{", "}", " " }
JsonChars == { "{", "}", ":" }

\* All documents of n lines over the alphabet A with c characters at most.
RECURSIVE DocsWithin(_, _, _)
DocsWithin(A, n, c) ==
    IF n = 0 THEN { <<>> }
    ELSE UNION { { << t >> \o d : d \in DocsWithin(A, n - 1, c - Len(t)) } :
                 t \in TextsUpTo(A, c) }

EnterDocs(A) == UNION { DocsWithin(A, n, MaxEnterChars) : n \in 1..MaxLines }

\* One selection, or two that do not touch: cursors, and selections from the
\* start of a line to a position on it.
EnterSelections(ls) ==
    LET cursors == { Cursor(p.line, p.character) : p \in Positions(ls) }
        selected == { Selection(Position(p.line, 0), p) :
                        p \in { q \in Positions(ls) : q.character > 0 } }
        apart(s, t) == \/ isBefore(rangeEnd(s), rangeStart(t))
                       \/ isBefore(rangeEnd(t), rangeStart(s))
        pairs == { << s, t >> : s \in cursors, t \in cursors \cup selected }
    IN  { << s >> : s \in cursors \cup selected }
            \cup { st \in pairs : apart(st[1], st[2]) }

\* The documents of the tests 'Enter after opening brace' and 'Enter after
\* brace with trailing content': function test() {} and function test() {};
\* with the cursor behind the opening brace, in an editor that indents by
\* four spaces.
FunctionTest ==
    << "f", "u", "n", "c", "t", "i", "o", "n", " ", "t", "e", "s", "t", "(", ")", " " >>

TestDocs ==
    { << FunctionTest \o << "{", "}" >> >>, << FunctionTest \o << "{", "}", ";" >> >> }

InitEnter ==
    /\ uri = "a"
    /\ insertSpaces = TRUE
    /\ \/ /\ languageId = "typescript"
          /\ tabSize = 2
          /\ config \in { AllOn, [ AllOn EXCEPT !.autoInsertClosingBrace = FALSE ] }
          /\ lines \in EnterDocs(EnterChars)
          /\ selections \in EnterSelections(lines)
       \/ /\ languageId = "json"
          /\ tabSize = 2
          /\ config = AllOn
          /\ lines \in EnterDocs(JsonChars)
          /\ selections \in EnterSelections(lines)
       \/ /\ languageId = "typescript"
          /\ tabSize = DefaultTabSize
          /\ config = AllOn
          /\ lines \in TestDocs
          /\ selections = << Cursor(0, Len(FunctionTest) + 1) >>
    /\ lastEndPositions = [ u \in Uris |-> NoPos ]
    /\ pending = <<>>
    /\ pc = "idle"
    /\ saved = NoOp
    /\ op = NoOp
    /\ prevLines = <<>>
    /\ prevSelections = <<>>
    /\ delivered = NoOp

NextEnter ==
    \/ EnterJsonComma
    \/ EnterDefaultNewline
    \/ EnterExpandBrace
    \/ EnterMultiCursor

SpecEnter == InitEnter /\ [][NextEnter]_vars

(***************************************************************************)
(* Claims about the Enter key.                                             *)
(***************************************************************************)
enterDone == op.kind = "enter" /\ pc = "idle"
expanded == enterDone /\ op.path \in { "expand", "multi" }

\* Whether the text behind the brace before a cursor holds a "}" with no
\* "{" in front of it.
closedBehindBrace(ls, selection) ==
    LET rest == sliceFrom(ls[selection.active.line + 1], braceCharIndex(ls, selection) + 1)
    IN  /\ indexOf(rest, "}") # -1
        /\ indexOf(rest, "{") = -1 \/ indexOf(rest, "}") < indexOf(rest, "{")

\* C5 as stated: every brace expansion by Enter adds exactly 2 lines to the
\* document (2 for each expanded cursor) and leaves countUnmatchedBraces of
\* the document as it was before the press.
C5_Original ==
    expanded =>
        /\ Len(lines) = Len(prevLines) + 2 * Len(prevSelections)
        /\ countUnmatchedBraces(lines) = countUnmatchedBraces(prevLines)

\* C5: every brace expansion by Enter adds exactly 2 lines for each expanded
\* cursor and never raises countUnmatchedBraces; the count is as before the
\* press when behind each expanded brace the line holds a "}" with no "{"
\* in front of it.
C5_ExpansionAddsTwoLines ==
    expanded =>
        /\ Len(lines) = Len(prevLines) + 2 * Len(prevSelections)
        /\ countUnmatchedBraces(lines) <= countUnmatchedBraces(prevLines)
        /\ (\A i \in 1..Len(prevSelections) : closedBehindBrace(prevLines, prevSelections[i]))
              => countUnmatchedBraces(lines) = countUnmatchedBraces(prevLines)

\* C5's case: a single unmatched brace expanded, two lines added and the
\* inserted "}" closing it.
C5_Witness ==
    /\ expanded
    /\ op.path = "expand"
    /\ Len(lines) = Len(prevLines) + 2
    /\ countUnmatchedBraces(prevLines) = 1
    /\ countUnmatchedBraces(lines) = 0

twoLinesExpanded ==
    /\ enterDone
    /\ op.path = "multi"
    /\ Len(prevSelections) = 2
    /\ prevSelections[1].active.line # prevSelections[2].active.line

upperLine == Min({ prevSelections[1].active.line, prevSelections[2].active.line })
lowerLine == Max({ prevSelections[1].active.line, prevSelections[2].active.line })

\* The three lines of an expanded block that starts at line l: the line up
\* to its brace, a line of indentation, a line that closes the brace.
isBlockAt(ls, l) ==
    /\ Len(ls) >= l + 3
    /\ Len(ls[l + 1]) > 0 /\ ls[l + 1][Len(ls[l + 1])] = "{"
    /\ isBlank(ls[l + 2])
    /\ startsWith(trim(ls[l + 3]), << "}" >>)

\* C6 as stated: two cursors behind expandable braces on two lines: both
\* are expanded into 3-line blocks and the lower cursor ends on its line
\* plus 2.
C6_Original ==
    twoLinesExpanded =>
        /\ isBlockAt(lines, upperLine) /\ isBlockAt(lines, lowerLine + 2)
        /\ \E i \in 1..Len(selections) : selections[i].active.line = lowerLine + 2

\* C6: two cursors behind expandable braces on two lines: both are expanded
\* into 3-line blocks, the upper cursor ends on its line plus 1 and the
\* lower cursor on its line plus 3: 2 for the block above it and 1 into its
\* own block.
C6_LowerCursorPlusThree ==
    twoLinesExpanded =>
        /\ Len(lines) = Len(prevLines) + 4
        /\ isBlockAt(lines, upperLine) /\ isBlockAt(lines, lowerLine + 2)
        /\ Len(selections) = 2
        /\ selections[1].active.line = upperLine + 1
        /\ selections[2].active.line = lowerLine + 3

\* C6's case: the cursors were on neighbouring lines, upper first, and the
\* lower one ended three lines further down.
C6_Witness ==
    /\ twoLinesExpanded
    /\ prevSelections[1].active.line + 1 = prevSelections[2].active.line
    /\ selections[2].active.line = prevSelections[2].active.line + 3

\* Where the expansion puts the cursor that was the i-th before the press.
remapped(i) ==
    LET line == prevSelections[i].active.line
        above == { j \in 1..Len(prevSelections) : prevSelections[j].active.line < line }
    IN  Cursor(line + 1 + 2 * Cardinality(above),
               Len(getIndentFromLine(prevLines[line + 1])) + Len(getIndentUnit))

\* C7 as stated: after a multi-cursor expansion the i-th selection is the
\* remapped position of the i-th selection before the press, whatever the
\* order of the selections was.
C7_Original ==
    (enterDone /\ op.path = "multi") =>
        /\ Len(selections) = Len(prevSelections)
        /\ \A i \in 1..Len(prevSelections) : selections[i] = remapped(i)

\* Every selection is empty, the option is on and every cursor can expand
\* the brace before it.
allQualify ==
    /\ \A i \in 1..Len(prevSelections) : isEmpty(prevSelections[i])
    /\ config.autoInsertClosingBrace
    /\ \A i \in 1..Len(prevSelections) : canExpandBrace(prevLines, prevSelections[i])

RECURSIVE closingBraces(_)
closingBraces(ls) ==
    IF ls = <<>> THEN 0
    ELSE Cardinality({ i \in 1..Len(ls[1]) : ls[1][i] = "}" }) + closingBraces(Tail(ls))

\* C8: with more than one cursor, Enter expands only if every selection is
\* empty, the option is on and every cursor can expand its brace; otherwise
\* every cursor gets the default line break and no "}" is added anywhere.
C8_AllOrNothing ==
    (enterDone /\ Len(prevSelections) > 1) =>
        /\ op.path \in { "multi", "rejected" } <=> allQualify
        /\ ~allQualify =>
              /\ op.path = "newline"
              /\ Len(lines) = Len(prevLines) + Len(prevSelections)
              /\ closingBraces(lines) <= closingBraces(prevLines)

\* C8's case: two cursors, one behind a brace it can expand and one not:
\* both got the default line break.
C8_Witness ==
    /\ enterDone
    /\ Len(prevSelections) = 2
    /\ config.autoInsertClosingBrace
    /\ isEmpty(prevSelections[1]) /\ isEmpty(prevSelections[2])
    /\ canExpandBrace(prevLines, prevSelections[1])
    /\ ~canExpandBrace(prevLines, prevSelections[2])
    /\ op.path = "newline"

\* C9 as stated: the edits of one key action are planned from the document
\* and the cursors as they were at its start and applied as one batch.
C9_Original ==
    enterDone => (op.batches <= 1 /\ op.planFrom = prevLines)

\* The press is in a JSON document with the comma option on, the primary
\* selection empty on a line that holds a property with an object value.
commaFirst ==
    LET trimmed == trim(prevLines[prevSelections[1].active.line + 1])
    IN  /\ languageId \in { "json", "jsonc" }
        /\ config.insertCommaOnEnter
        /\ isEmpty(prevSelections[1])
        /\ Len(trimmed) > 0
        /\ trimmed[Len(trimmed)] = "}"
        /\ \E i \in 1..Len(trimmed) : trimmed[i] = ":"

withComma ==
    LET line == prevSelections[1].active.line
    IN  insertAt(prevLines, line, trimEndLength(prevLines[line + 1]), << "," >>)

\* C9: one press of Enter applies at most two batches.  When commaFirst, the
\* comma is inserted as a batch of its own, and the expansion or the line
\* break is planned afterwards from the document that holds the comma, for
\* the cursors read before the comma was inserted; otherwise the one batch
\* is planned from the document as it was at the start.  Each batch is
\* applied to the document it was planned from.
C9_CommaThenPlan ==
    /\ (op.kind = "enter" /\ pc = "enterBraceLogic") =>
          commaFirst /\ lines = withComma /\ op.batches = 1
    /\ enterDone =>
          /\ op.batches <= 2
          /\ op.planFrom = (IF commaFirst THEN withComma ELSE prevLines)
          /\ op.batches = (IF commaFirst THEN 1 ELSE 0)
                              + (IF op.path = "rejected" THEN 0 ELSE 1)
          /\ op.path = "expand" =>
                lines = applyEdits(op.planFrom,
                            << expansionEdit(op.planFrom, prevSelections[1]) >>)
          /\ op.path = "multi" =>
                lines = applyEdits(op.planFrom,
                            [ i \in 1..Len(prevSelections) |->
                                expansionEdit(op.planFrom,
                                              sortedSelections(prevSelections)[i]) ])

\* C9's case: Enter between the braces of an object value in JSON: the
\* comma went in first, the expansion second.
C9_Witness ==
    /\ enterDone
    /\ commaFirst
    /\ op.path = "expand"
    /\ op.batches = 2

(***************************************************************************)
(* The host's deleteLeft command.  Every selection is deleted; an empty    *)
(* one deletes the character before the cursor, within the indentation the *)
(* whitespace back to the previous tab stop, and at the start of a line    *)
(* the line break before it.  Deleting an auto-closed pair is left out.    *)
(***************************************************************************)
prevIndentTabStop(column) == ((column - 1) \div tabSize) * tabSize

deleteLeftRange(ls, sel) ==
    LET l == sel.active.line
        c == sel.active.character
        lineText == ls[l + 1]
        firstNonWhitespace == searchNonWhitespace(lineText)
        lastIndentation == IF firstNonWhitespace = -1 THEN Len(lineText)
                           ELSE firstNonWhitespace
    IN  IF ~isEmpty(sel) THEN Edit(rangeStart(sel), rangeEnd(sel), << <<>> >>)
        ELSE IF c > 0
             THEN IF c <= lastIndentation
                  THEN Edit(Position(l, prevIndentTabStop(c)), sel.active, << <<>> >>)
                  ELSE Edit(Position(l, c - 1), sel.active, << <<>> >>)
        ELSE IF l > 0
             THEN Edit(Position(l - 1, Len(ls[l])), sel.active, << <<>> >>)
        ELSE Edit(sel.active, sel.active, << <<>> >>)

\* A position at or behind the end of a deleted range, after the deletion.
positionAfterDelete(p, range) ==
    IF p.line = range.end.line
    THEN Position(range.start.line,
                  range.start.character + p.character - range.end.character)
    ELSE Position(p.line - (range.end.line - range.start.line), p.character)

\* A position after the deletion of ranges that all end at or before it.
RECURSIVE positionAfterDeletes(_, _)
positionAfterDeletes(p, ranges) ==
    IF ranges = <<>> THEN p
    ELSE LET i == lastEdit(ranges)
         IN  positionAfterDeletes(positionAfterDelete(p, ranges[i]), removeAt(ranges, i))

\* The subsequence of the ranges that end at or before position p.
RECURSIVE rangesBefore(_, _)
rangesBefore(ranges, p) ==
    IF ranges = <<>> THEN <<>>
    ELSE IF isBefore(p, ranges[1].end) THEN rangesBefore(Tail(ranges), p)
    ELSE << ranges[1] >> \o rangesBefore(Tail(ranges), p)

deleteLeft(ls, sels) ==
    LET ranges == [ i \in 1..Len(sels) |-> deleteLeftRange(ls, sels[i]) ]
        cursorAfter(i) ==
            LET at == positionAfterDeletes(ranges[i].start,
                          rangesBefore(removeAt(ranges, i), ranges[i].start))
            IN  Cursor(at.line, at.character)
    IN  [ lines |-> applyEdits(ls, ranges),
          selections |-> mergeCursors([ i \in 1..Len(sels) |-> cursorAfter(i) ]) ]

(***************************************************************************)
(* utils/cursorHelpers.ts, handlers/smartBackspaceHandler.ts               *)
(***************************************************************************)

\* isInIndentZone(lineText, cursorChar)
isInIndentZone(lineText, cursorChar) ==
    /\ searchNonWhitespace(lineText) # -1
    /\ cursorChar <= searchNonWhitespace(lineText)

\* A slip: the index behind the first non-whitespace character.
getFirstNonWhitespaceIndex_Behind(lineText) ==
    IF searchNonWhitespace(lineText) = -1 THEN 0 ELSE searchNonWhitespace(lineText) + 1

\* getFirstNonWhitespaceIndex(lineText)
getFirstNonWhitespaceIndex(lineText) ==
    IF searchNonWhitespace(lineText) = -1 THEN 0 ELSE searchNonWhitespace(lineText)

\* A slip: the whitespace the line holds is kept as its indent.
targetIndent_KeepsLine(ls, currentLine) == getIndentFromLine(ls[currentLine + 1])

\* const targetIndent = calculateIndent(editor, document, currentLine)
targetIndent(ls, currentLine) == calculateIndent(ls, currentLine)

\* A slip: only a non-empty primary selection sends the key to the default
\* command; further cursors are not looked at.
backspacePath_PrimaryOnly(ls, sels) ==
    IF ~isEmpty(sels[1]) THEN "deleteLeft"
    ELSE LET currentLine == sels[1].active.line
             currentChar == sels[1].active.character
             lineText == ls[currentLine + 1]
             firstNonWhitespaceIndex == getFirstNonWhitespaceIndex(lineText)
             correctIndent == calculateIndent(ls, currentLine)
         IN  IF isBlank(lineText) /\ config.handleEmptyLine /\ currentLine # 0
             THEN IF isBlank(ls[currentLine]) THEN "emptyLineWithEmptyPrevious"
                  ELSE "emptyLineWithTextPrevious"
             ELSE IF /\ isInIndentZone(lineText, currentChar)
                     /\ config.handleIndentZone
                     /\ currentLine # 0
                  THEN IF firstNonWhitespaceIndex > Len(correctIndent) THEN "fixIndent"
                       ELSE IF isBlank(ls[currentLine]) THEN "indentZoneWithEmptyPrevious"
                       ELSE "indentZoneWithTextPrevious"
             ELSE "deleteLeft"

\* The branch execute takes: the default command, or the handler that
\* reports the key as handled.
backspacePath(ls, sels) ==
    IF Len(sels) > 1 \/ ~isEmpty(sels[1]) THEN "deleteLeft"
    ELSE LET currentLine == sels[1].active.line
             currentChar == sels[1].active.character
             lineText == ls[currentLine + 1]
             firstNonWhitespaceIndex == getFirstNonWhitespaceIndex(lineText)
             correctIndent == calculateIndent(ls, currentLine)
         IN  IF isBlank(lineText) /\ config.handleEmptyLine /\ currentLine # 0
             THEN IF isBlank(ls[currentLine]) THEN "emptyLineWithEmptyPrevious"
                  ELSE "emptyLineWithTextPrevious"
             ELSE IF /\ isInIndentZone(lineText, currentChar)
                     /\ config.handleIndentZone
                     /\ currentLine # 0
                  THEN IF firstNonWhitespaceIndex > Len(correctIndent) THEN "fixIndent"
                       ELSE IF isBlank(ls[currentLine]) THEN "indentZoneWithEmptyPrevious"
                       ELSE "indentZoneWithTextPrevious"
             ELSE "deleteLeft"

\* The edits of the handler of a branch, and the position it gives the
\* cursor afterwards.
backspacePlan(ls, sels) ==
    LET currentLine == sels[1].active.line
        lineText == ls[currentLine + 1]
        prevText == ls[currentLine]
        prevTextTrimmed == trimEnd(prevText)
        firstNonWhitespaceIndex == getFirstNonWhitespaceIndex(lineText)
        correctIndent == calculateIndent(ls, currentLine)
        path == backspacePath(ls, sels)
    IN  IF path = "emptyLineWithEmptyPrevious"
        THEN [ edits |-> << Edit(Position(currentLine - 1, 0), Position(currentLine, 0),
                                 << <<>> >>),
                            Edit(Position(currentLine, 0),
                                 Position(currentLine, Len(lineText)),
                                 << targetIndent(ls, currentLine) >>) >>,
               cursor |-> Cursor(currentLine - 1, Len(targetIndent(ls, currentLine))) ]
        ELSE IF path = "emptyLineWithTextPrevious"
        THEN [ edits |-> << Edit(Position(currentLine, 0), Position(currentLine + 1, 0),
                                 << <<>> >>) >>
                         \o (IF Len(prevText) > Len(prevTextTrimmed)
                             THEN << Edit(Position(currentLine - 1, Len(prevTextTrimmed)),
                                          Position(currentLine - 1, Len(prevText)),
                                          << <<>> >>) >>
                             ELSE <<>>),
               cursor |-> Cursor(currentLine - 1, Len(prevTextTrimmed)) ]
        ELSE IF path = "fixIndent"
        THEN [ edits |-> << Edit(Position(currentLine, 0),
                                 Position(currentLine, firstNonWhitespaceIndex),
                                 << correctIndent >>) >>,
               cursor |-> Cursor(currentLine, Len(correctIndent)) ]
        ELSE IF path = "indentZoneWithEmptyPrevious"
        THEN [ edits |-> << Edit(Position(currentLine - 1, 0), Position(currentLine, 0),
                                 << <<>> >>) >>,
               cursor |-> Cursor(currentLine - 1, firstNonWhitespaceIndex) ]
        ELSE [ edits |-> << Edit(Position(currentLine - 1, 0),
                                 Position(currentLine, Len(lineText)), << <<>> >>),
                            Edit(Position(currentLine - 1, 0), Position(currentLine - 1, 0),
                                 << prevTextTrimmed \o trim(lineText) >>) >>,
               cursor |-> Cursor(currentLine - 1, Len(prevTextTrimmed)) ]

\* SpecBackspace follows one press of Backspace.
backspaceStarts == pc = "idle" /\ op = NoOp /\ pending = << >>

\* execute, the branches that end in the default command.
BackspaceDeleteLeft ==
    /\ backspaceStarts
    /\ backspacePath(lines, selections) = "deleteLeft"
    /\ lines' = deleteLeft(lines, selections).lines
    /\ selections' = deleteLeft(lines, selections).selections
    /\ pending' = pending \o eventsOf(uri, lines' # lines, selections, selections')
    /\ op' = [ kind |-> "backspace", path |-> "deleteLeft" ]
    /\ Started
    /\ UNCHANGED << editorOptions, lastEndPositions, pc, saved >>

\* What the handler of a branch does: it edits the document in one batch and
\* then sets the cursor; a batch the editor refuses ends the command with
\* nothing changed.
backspaceHandled(path) ==
    /\ LET plan == backspacePlan(lines, selections)
       IN  IF rangesOverlap(plan.edits)
           THEN /\ op' = [ kind |-> "backspace", path |-> "rejected" ]
                /\ UNCHANGED << lines, selections, pending >>
           ELSE /\ lines' = applyEdits(lines, plan.edits)
                /\ selections' = << plan.cursor >>
                /\ pending' = pending \o eventsOf(uri, TRUE, selections, selections')
                /\ op' = [ kind |-> "backspace", path |-> path ]
    /\ Started
    /\ UNCHANGED << editorOptions, lastEndPositions, pc, saved >>

\* handleEmptyLineWithEmptyPrevious
BackspaceEmptyLineWithEmptyPrevious ==
    /\ backspaceStarts
    /\ backspacePath(lines, selections) = "emptyLineWithEmptyPrevious"
    /\ backspaceHandled("emptyLineWithEmptyPrevious")

\* handleEmptyLineWithTextPrevious
BackspaceEmptyLineWithTextPrevious ==
    /\ backspaceStarts
    /\ backspacePath(lines, selections) = "emptyLineWithTextPrevious"
    /\ backspaceHandled("emptyLineWithTextPrevious")

\* handleIndentZone, the indent is larger than it should be
BackspaceFixIndent ==
    /\ backspaceStarts
    /\ backspacePath(lines, selections) = "fixIndent"
    /\ backspaceHandled("fixIndent")

\* handleIndentZoneWithEmptyPrevious
BackspaceIndentZoneWithEmptyPrevious ==
    /\ backspaceStarts
    /\ backspacePath(lines, selections) = "indentZoneWithEmptyPrevious"
    /\ backspaceHandled("indentZoneWithEmptyPrevious")

\* handleIndentZoneWithTextPrevious
BackspaceIndentZoneWithTextPrevious ==
    /\ backspaceStarts
    /\ backspacePath(lines, selections) = "indentZoneWithTextPrevious"
    /\ backspaceHandled("indentZoneWithTextPrevious")

(***************************************************************************)
(* SpecBackspace: one press of Backspace on every small document, with one *)
(* selection or with two cursors on different lines, each option on or off.*)
(***************************************************************************)
MaxBackspaceLines == 3
MaxBackspaceChars == 2

BackspaceChars == { " ", "x", "{" }

BackspaceDocs ==
    UNION { DocsWithin(BackspaceChars, n, MaxBackspaceChars) : n \in 1..MaxBackspaceLines }

BackspaceSelections(ls) ==
    { st \in EnterSelections(ls) :
        Len(st) = 2 => st[1].active.line # st[2].active.line }

InitBackspace ==
    /\ uri = "a"
    /\ languageId = "typescript"
    /\ tabSize = 2
    /\ insertSpaces = TRUE
    /\ config \in { [ AllOn EXCEPT !.handleEmptyLine = e, !.handleIndentZone = z ] :
                      e \in BOOLEAN, z \in BOOLEAN }
    /\ lines \in BackspaceDocs
    /\ selections \in BackspaceSelections(lines)
    /\ lastEndPositions = [ u \in Uris |-> NoPos ]
    /\ pending = <<>>
    /\ pc = "idle"
    /\ saved = NoOp
    /\ op = NoOp
    /\ prevLines = <<>>
    /\ prevSelections = <<>>
    /\ delivered = NoOp

NextBackspace ==
    \/ BackspaceDeleteLeft
    \/ BackspaceEmptyLineWithEmptyPrevious
    \/ BackspaceEmptyLineWithTextPrevious
    \/ BackspaceFixIndent
    \/ BackspaceIndentZoneWithEmptyPrevious
    \/ BackspaceIndentZoneWithTextPrevious

SpecBackspace == InitBackspace /\ [][NextBackspace]_vars

(***************************************************************************)
(* Claims about the Backspace key.                                         *)
(***************************************************************************)

\* The press found a single empty cursor on a whitespace-only line below a
\* whitespace-only line, with the empty-line option on.
onEmptyLineBelowEmptyLine ==
    /\ op.kind = "backspace"
    /\ Len(prevSelections) = 1
    /\ isEmpty(prevSelections[1])
    /\ config.handleEmptyLine
    /\ prevSelections[1].active.line > 0
    /\ isBlank(prevLines[prevSelections[1].active.line + 1])
    /\ isBlank(prevLines[prevSelections[1].active.line])

\* C10: Backspace with a single empty cursor on a whitespace-only line whose
\* previous line is whitespace-only too (the option being on) takes exactly
\* one line out of the document and leaves the cursor at the end of a line
\* that is nothing but its indent, which equals calculateIndent at that
\* line's new position in the resulting document.
C10_EmptyLineJoinsUpward ==
    onEmptyLineBelowEmptyLine =>
        LET at == selections[1].active
        IN  /\ op.path = "emptyLineWithEmptyPrevious"
            /\ Len(lines) = Len(prevLines) - 1
            /\ Len(selections) = 1 /\ isEmpty(selections[1])
            /\ at.line = prevSelections[1].active.line - 1
            /\ getIndentFromLine(lines[at.line + 1]) = calculateIndent(lines, at.line)
            /\ lines[at.line + 1] = calculateIndent(lines, at.line)
            /\ at.character = Len(lines[at.line + 1])

\* C10's case: below a line that opens a block and an empty line, the line
\* with the cursor held less than the indent of the block; the empty line
\* went and the line got that indent.
C10_Witness ==
    /\ onEmptyLineBelowEmptyLine
    /\ Len(lines) = Len(prevLines) - 1
    /\ Len(prevLines[prevSelections[1].active.line + 1]) < Len(getIndentUnit)
    /\ lines[selections[1].active.line + 1] = getIndentUnit

\* C12: Backspace with a non-empty selection or with more than one cursor
\* runs the host's default deletion for all cursors and nothing else: none
\* of the smart paths is taken, and the document and the cursors are what
\* the default command leaves.
C12_BatchFallsBackToDefault ==
    (op.kind = "backspace" /\ (Len(prevSelections) > 1 \/ ~isEmpty(prevSelections[1]))) =>
        /\ op.path = "deleteLeft"
        /\ lines = deleteLeft(prevLines, prevSelections).lines
        /\ selections = deleteLeft(prevLines, prevSelections).selections

\* C12's case: two cursors, the primary one at the start of an empty line
\* below a line that ends in whitespace, the empty-line option on: the
\* lines were joined and the whitespace was kept.
C12_Witness ==
    /\ op.kind = "backspace"
    /\ Len(prevSelections) = 2
    /\ config.handleEmptyLine
    /\ prevSelections[1].active.line > 0
    /\ prevSelections[1].active.character = 0
    /\ isBlank(prevLines[prevSelections[1].active.line + 1])
    /\ ~isBlank(prevLines[prevSelections[1].active.line])
    /\ trimEndLength(prevLines[prevSelections[1].active.line])
           < Len(prevLines[prevSelections[1].active.line])
    /\ op.path = "deleteLeft"
    /\ \E l \in 1..Len(lines) : lines[l] = prevLines[prevSelections[1].active.line]

(***************************************************************************)
(* extension.ts (the type interceptor), handlers/smartJsonColonHandler.ts  *)
(***************************************************************************)

\* [a-zA-Z_$] and [a-zA-Z0-9_$], for the characters the documents hold.
IsIdentStart(c) == c \in { "a", "x", "_", "$" }
IsIdentChar(c) == IsIdentStart(c) \/ IsDigit(c)

\* [a-zA-Z_$][a-zA-Z0-9_$]*(?:\.[a-zA-Z_$][a-zA-Z0-9_$]*)* matches all of s
isDottedName(s) ==
    /\ s # <<>>
    /\ IsIdentStart(s[1])
    /\ \A i \in 1..Len(s) : IsIdentChar(s[i]) \/ s[i] = "."
    /\ \A i \in 1..Len(s) : s[i] = "." => (i < Len(s) /\ IsIdentStart(s[i + 1]))

NoMatch == [ found |-> FALSE ]

\* findPropertyNameBeforeCursor(lineText, cursorChar): the quoted name that
\* ends the text before the cursor, else the unquoted one, else null.
findPropertyNameBeforeCursor(lineText, cursorChar) ==
    LET textBeforeCursor == slice(lineText, 0, cursorChar)
        trimmedLength == trimEndLength(textBeforeCursor)
        trailingWhitespace == Len(textBeforeCursor) - trimmedLength
        \* /"([^"]+)"(\s*)$/
        opening == { i \in 1..(trimmedLength - 2) :
                       /\ textBeforeCursor[i] = "\""
                       /\ \A j \in (i + 1)..(trimmedLength - 1) : textBeforeCursor[j] # "\"" }
        quoted == /\ trimmedLength > 0
                  /\ textBeforeCursor[trimmedLength] = "\""
                  /\ opening # {}
        \* /(name)(\s*)$/, the leftmost start from which the rest is a name
        starts == { i \in 1..trimmedLength :
                      isDottedName(SubSeq(textBeforeCursor, i, trimmedLength)) }
    IN  IF quoted
        THEN LET startPos == Min(opening) - 1
                 propertyName == SubSeq(textBeforeCursor, startPos + 2, trimmedLength - 1)
             IN  [ found |-> TRUE, propertyName |-> propertyName, isQuoted |-> TRUE,
                   startPos |-> startPos,
                   endPos |-> startPos + 1 + Len(propertyName) + 1,
                   trailingWhitespace |-> trailingWhitespace ]
        ELSE IF starts # {}
        THEN LET startPos == Min(starts) - 1
                 propertyName == SubSeq(textBeforeCursor, startPos + 1, trimmedLength)
             IN  [ found |-> TRUE, propertyName |-> propertyName, isQuoted |-> FALSE,
                   startPos |-> startPos,
                   endPos |-> startPos + Len(propertyName),
                   trailingWhitespace |-> trailingWhitespace ]
        ELSE NoMatch

\* hasColonAfterCursor(lineText, cursorChar)
hasColonAfterCursor(lineText, cursorChar) ==
    startsWith(trim(sliceFrom(lineText, cursorChar)), << ":" >>)

\* A position at or behind the end of a range, after the range is replaced
\* by n characters.
positionAfterReplace(p, range, n) ==
    IF p.line = range.end.line
    THEN Position(range.start.line,
                  range.start.character + n + p.character - range.end.character)
    ELSE Position(p.line - (range.end.line - range.start.line), p.character)

RECURSIVE positionAfterReplaces(_, _, _)
positionAfterReplaces(p, ranges, n) ==
    IF ranges = <<>> THEN p
    ELSE LET i == lastEdit(ranges)
         IN  positionAfterReplaces(positionAfterReplace(p, ranges[i], n),
                                   removeAt(ranges, i), n)

\* typeColonDefault(): the host's default:type with ":", which replaces
\* every selection by the character and leaves each cursor behind it.
typeColonDefault(ls, sels) ==
    LET ranges == [ i \in 1..Len(sels) |->
                      Edit(rangeStart(sels[i]), rangeEnd(sels[i]), << << ":" >> >>) ]
        cursorAfter(i) ==
            LET at == positionAfterReplaces(ranges[i].end,
                          << ranges[i] >> \o rangesBefore(removeAt(ranges, i),
                                                         ranges[i].start), 1)
            IN  Cursor(at.line, at.character)
    IN  [ lines |-> applyEdits(ls, ranges),
          selections |-> [ i \in 1..Len(sels) |-> cursorAfter(i) ] ]

\* A slip: with either option off the heuristic is skipped altogether.
colonPath_OptionsGate(ls, sels) ==
    IF ~isJsonDocument \/ Len(sels) > 1 \/ ~isEmpty(sels[1]) THEN "default"
    ELSE IF hasColonAfterCursor(ls[sels[1].active.line + 1], sels[1].active.character)
    THEN "default"
    ELSE IF ~findPropertyNameBeforeCursor(ls[sels[1].active.line + 1],
                                          sels[1].active.character).found
    THEN "default"
    ELSE IF ~config.addWhitespaceAfterColon \/ ~config.addQuotesToPropertyNames
    THEN "default"
    ELSE "smart"

\* A slip: the number of cursors and the selection are not looked at.
colonPath_AnySelections(ls, sels) ==
    IF ~isJsonDocument THEN "default"
    ELSE IF hasColonAfterCursor(ls[sels[1].active.line + 1], sels[1].active.character)
    THEN "default"
    ELSE IF ~findPropertyNameBeforeCursor(ls[sels[1].active.line + 1],
                                          sels[1].active.character).found
    THEN "default"
    ELSE "smart"

\* The type interceptor and execute: whether ":" is typed by the host's own
\* command or placed by the handler.
colonPath(ls, sels) ==
    IF ~isJsonDocument \/ Len(sels) > 1 \/ ~isEmpty(sels[1]) THEN "default"
    ELSE IF hasColonAfterCursor(ls[sels[1].active.line + 1], sels[1].active.character)
    THEN "default"
    ELSE IF ~findPropertyNameBeforeCursor(ls[sels[1].active.line + 1],
                                          sels[1].active.character).found
    THEN "default"
    ELSE "smart"

\* execute from "Build the text to insert" on: the text, the edits of the
\* batch in the order they are added, and the column set afterwards.
colonPlan(ls, sels) ==
    LET currentLine == sels[1].active.line
        currentChar == sels[1].active.character
        propertyInfo == findPropertyNameBeforeCursor(ls[currentLine + 1], currentChar)
        textToInsert == << ":" >> \o (IF config.addWhitespaceAfterColon THEN << " " >>
                                      ELSE <<>>)
        needsQuotes == ~propertyInfo.isQuoted /\ config.addQuotesToPropertyNames
        colonInsertPos == propertyInfo.endPos
        finalInsertPos == IF needsQuotes
                          THEN propertyInfo.startPos + Len(propertyInfo.propertyName) + 2
                          ELSE colonInsertPos
        insertPosition == Position(currentLine, finalInsertPos)
    IN  [ textToInsert |-> textToInsert,
          needsQuotes |-> needsQuotes,
          edits |->
            (IF propertyInfo.trailingWhitespace > 0
             THEN << Edit(Position(currentLine, colonInsertPos),
                          Position(currentLine, currentChar), << <<>> >>) >>
             ELSE <<>>)
            \o (IF needsQuotes
                THEN << Edit(Position(currentLine, propertyInfo.startPos),
                             Position(currentLine, propertyInfo.endPos),
                             << << "\"" >> \o propertyInfo.propertyName \o << "\"" >> >>) >>
                ELSE <<>>)
            \o << Edit(insertPosition, insertPosition, << textToInsert >>) >>,
          newCursorPos |-> currentChar - propertyInfo.trailingWhitespace
                              + Len(textToInsert)
                              + (IF needsQuotes THEN 2 ELSE 0) ]

\* One key is followed at a time.
keyStarts == pc = "idle" /\ op = NoOp /\ pending = << >>

\* ":" typed where the heuristic does not apply: the host types it.
ColonDefault ==
    /\ keyStarts
    /\ colonPath(lines, selections) = "default"
    /\ lines' = typeColonDefault(lines, selections).lines
    /\ selections' = typeColonDefault(lines, selections).selections
    /\ pending' = pending \o eventsOf(uri, TRUE, selections, selections')
    /\ op' = [ kind |-> "colon", path |-> "default" ]
    /\ Started
    /\ UNCHANGED << editorOptions, lastEndPositions, pc, saved >>

\* ":" typed behind a property name in JSON: one batch of edits, then the
\* selection is set; a batch the editor refuses ends the command.
ColonSmart ==
    /\ keyStarts
    /\ colonPath(lines, selections) = "smart"
    /\ LET plan == colonPlan(lines, selections)
       IN  IF rangesOverlap(plan.edits)
           THEN /\ op' = [ kind |-> "colon", path |-> "rejected" ]
                /\ UNCHANGED << lines, selections, pending >>
           ELSE /\ lines' = applyEdits(lines, plan.edits)
                /\ selections' =
                       << Cursor(selections[1].active.line,
                                 validatePosition(lines',
                                     Position(selections[1].active.line,
                                              plan.newCursorPos)).character) >>
                /\ pending' = pending \o eventsOf(uri, TRUE, selections, selections')
                /\ op' = [ kind |-> "colon", path |-> "smart" ]
    /\ Started
    /\ UNCHANGED << editorOptions, lastEndPositions, pc, saved >>

(***************************************************************************)
(* SpecOptions: one key (End, Backspace, Enter or ":") pressed once on     *)
(* every small document, with one cursor or two, with every option on or   *)
(* with an option off.                                                     *)
(***************************************************************************)
MaxOptionChars == 2

OptionChars == { " ", "x", "{" }
OptionJsonChars == { " ", "a", ":", "}" }

OptionDocs(A) == UNION { DocsWithin(A, n, MaxOptionChars) : n \in 1..MaxLines }

\* One cursor, or one cursor and a second at the end of the line below.
OptionSelections(ls) ==
    { << Cursor(p.line, p.character) >> : p \in Positions(ls) }
        \cup { << Cursor(p.line, p.character), Cursor(p.line + 1, Len(ls[p.line + 2])) >> :
                 p \in { q \in Positions(ls) : q.line + 1 < Len(ls) } }

\* Every option on or one option off: in program text the options of End,
\* Backspace and brace expansion, in JSON those of the comma and of ":",
\* where both options of ":" may be off together.
OptionConfigs ==
    { [ AllOn EXCEPT ![o] = b ] :
        o \in { "indentEmptyLine", "toggleTrimmedEnd", "handleEmptyLine",
                "handleIndentZone", "autoInsertClosingBrace" },
        b \in BOOLEAN }

OptionJsonConfigs ==
    { [ AllOn EXCEPT !.insertCommaOnEnter = FALSE ] }
        \cup { [ AllOn EXCEPT !.addWhitespaceAfterColon = w,
                              !.addQuotesToPropertyNames = q ] :
                 w \in BOOLEAN, q \in BOOLEAN }

InitOptions ==
    /\ uri = "a"
    /\ tabSize = 2
    /\ insertSpaces = TRUE
    /\ \/ /\ languageId = "typescript"
          /\ config \in OptionConfigs
          /\ lines \in OptionDocs(OptionChars)
       \/ /\ languageId = "json"
          /\ config \in OptionJsonConfigs
          /\ lines \in OptionDocs(OptionJsonChars)
    /\ selections \in OptionSelections(lines)
    /\ lastEndPositions = [ u \in Uris |-> NoPos ]
    /\ pending = <<>>
    /\ pc = "idle"
    /\ saved = NoOp
    /\ op = NoOp
    /\ prevLines = <<>>
    /\ prevSelections = <<>>
    /\ delivered = NoOp

NextOptions ==
    \/ keyStarts /\ EndFallback
    \/ keyStarts /\ EndNonEmptyLine
    \/ keyStarts /\ EndEmptyLine
    \/ EndEmptyLineResume
    \/ keyStarts /\ EndMultiCursor
    \/ BackspaceDeleteLeft
    \/ BackspaceEmptyLineWithEmptyPrevious
    \/ BackspaceEmptyLineWithTextPrevious
    \/ BackspaceFixIndent
    \/ BackspaceIndentZoneWithEmptyPrevious
    \/ BackspaceIndentZoneWithTextPrevious
    \/ EnterJsonComma
    \/ EnterDefaultNewline
    \/ EnterExpandBrace
    \/ EnterMultiCursor
    \/ ColonDefault
    \/ ColonSmart

SpecOptions == InitOptions /\ [][NextOptions]_vars

(***************************************************************************)
(* Claims about the options.                                               *)
(***************************************************************************)

\* How often character c occurs in a document.
RECURSIVE occurrences(_, _)
occurrences(ls, c) ==
    IF ls = <<>> THEN 0
    ELSE Cardinality({ i \in 1..Len(ls[1]) : ls[1][i] = c }) + occurrences(Tail(ls), c)

\* The option that governs End for the cursor of a selection.
endOptionOn(ls, selection) ==
    IF isBlank(ls[selection.active.line + 1]) THEN config.indentEmptyLine
    ELSE config.toggleTrimmedEnd

\* End acts smartly only for cursors whose option is on, records a state
\* only then, and takes the host's end-of-line command otherwise.
endGated ==
    /\ pc = "handleEmptyLine" => config.indentEmptyLine
    /\ lastEndPositions[uri] # NoPos =>
          op.kind = "end" /\ op.path \in { "nonEmpty", "emptyLine" }
    /\ op.kind = "end" =>
          /\ op.path = "nonEmpty" => config.toggleTrimmedEnd
          /\ op.path = "emptyLine" => config.indentEmptyLine
          /\ op.path = "multi" =>
                \A i \in 1..Len(op.selections) : endOptionOn(op.lines, op.selections[i])
          /\ op.path = "fallback" =>
                /\ \E i \in 1..Len(op.selections) : ~endOptionOn(lines, op.selections[i])
                /\ lastEndPositions[uri] = NoPos
                /\ selections = mergeCursors(
                       [ i \in 1..Len(op.selections) |->
                           Cursor(op.selections[i].active.line,
                                  Len(lines[op.selections[i].active.line + 1])) ])

\* Backspace takes a smart path only with that path's option on, and is
\* the host's deleteLeft otherwise.
backspaceGated ==
    op.kind = "backspace" =>
        LET lineText == prevLines[prevSelections[1].active.line + 1]
        IN  /\ op.path \in { "emptyLineWithEmptyPrevious", "emptyLineWithTextPrevious" }
                  => config.handleEmptyLine
            /\ op.path \in { "fixIndent", "indentZoneWithEmptyPrevious",
                             "indentZoneWithTextPrevious" }
                  => config.handleIndentZone
            /\ (isBlank(lineText) /\ ~config.handleEmptyLine) => op.path = "deleteLeft"
            /\ (~isBlank(lineText) /\ ~config.handleIndentZone) => op.path = "deleteLeft"
            /\ op.path = "deleteLeft" =>
                  /\ lines = deleteLeft(prevLines, prevSelections).lines
                  /\ selections = deleteLeft(prevLines, prevSelections).selections

\* Enter expands a brace only with autoInsertClosingBrace on and puts a
\* comma only with insertCommaOnEnter on; with neither, it is the host's
\* line break.
enterGated ==
    op.kind = "enter" =>
        /\ op.path \in { "expand", "multi" } => config.autoInsertClosingBrace
        /\ (op.path = "comma" \/ op.batches = 2) => config.insertCommaOnEnter
        /\ (~config.autoInsertClosingBrace /\ pc = "idle") => op.path = "newline"
        /\ (~config.insertCommaOnEnter /\ op.path = "newline") =>
              /\ op.batches = 1
              /\ lines = insertNewLine(prevLines, prevSelections).lines
              /\ selections = insertNewLine(prevLines, prevSelections).selections

\* ":" was typed at a single empty cursor of a JSON document, behind a
\* property name and with no colon following.
colonQualified ==
    /\ op.kind = "colon"
    /\ languageId \in { "json", "jsonc" }
    /\ Len(prevSelections) = 1
    /\ isEmpty(prevSelections[1])
    /\ ~hasColonAfterCursor(prevLines[prevSelections[1].active.line + 1],
                            prevSelections[1].active.character)
    /\ findPropertyNameBeforeCursor(prevLines[prevSelections[1].active.line + 1],
                                    prevSelections[1].active.character).found

literalColon ==
    /\ lines = typeColonDefault(prevLines, prevSelections).lines
    /\ selections = typeColonDefault(prevLines, prevSelections).selections

\* C14 as stated: every option gates its behaviour, and with an option of
\* ":" off, typing ":" is the literal keystroke.
C14_Original ==
    /\ endGated
    /\ backspaceGated
    /\ enterGated
    /\ (op.kind = "colon"
          /\ (~config.addWhitespaceAfterColon \/ ~config.addQuotesToPropertyNames))
         => literalColon

\* C14: the options of End, Backspace and Enter gate their smart behaviour:
\* with the option off that governs the case, the key does what the host's
\* default command does, nothing smart is edited or placed and no End state
\* is recorded.  The two options of ":" gate only their own part: with
\* addWhitespaceAfterColon off no space is added and with
\* addQuotesToPropertyNames off no quote is added, but the completion behind
\* a property name runs whatever the two options are.
C14_OptionsGate ==
    /\ endGated
    /\ backspaceGated
    /\ enterGated
    /\ op.kind = "colon" =>
          /\ op.path \in { "smart", "rejected" } <=> colonQualified
          /\ op.path = "default" => literalColon
          /\ ~config.addWhitespaceAfterColon =>
                occurrences(lines, " ") <= occurrences(prevLines, " ")
          /\ ~config.addQuotesToPropertyNames =>
                occurrences(lines, "\"") = occurrences(prevLines, "\"")

\* C14's case: both options of ":" off, ":" typed behind a property name and
\* the whitespace that follows it: the whitespace went, which the literal
\* keystroke leaves.
C14_Witness ==
    /\ colonQualified
    /\ ~config.addWhitespaceAfterColon
    /\ ~config.addQuotesToPropertyNames
    /\ op.path = "smart"
    /\ ~literalColon
    /\ occurrences(lines, " ") < occurrences(prevLines, " ")

(***************************************************************************)
(* SpecIndent: calculateIndent asked for every line of every small         *)
(* document, with spaces or tabs as the indent unit.                       *)
(***************************************************************************)
MaxIndentLines == 3
MaxIndentChars == 3

IndentChars == { " ", "\t", "x", "{" }

IndentDocs == UNION { DocsWithin(IndentChars, n, MaxIndentChars) : n \in 1..MaxIndentLines }

InitIndent ==
    /\ uri = "a"
    /\ languageId = "typescript"
    /\ tabSize \in { 2, 4 }
    /\ insertSpaces \in BOOLEAN
    /\ config = AllOn
    /\ lines \in IndentDocs
    /\ selections = << Cursor(0, 0) >>
    /\ lastEndPositions = [ u \in Uris |-> NoPos ]
    /\ pending = <<>>
    /\ pc = "idle"
    /\ saved = NoOp
    /\ op = NoOp
    /\ prevLines = <<>>
    /\ prevSelections = <<>>
    /\ delivered = NoOp

\* calculateIndent(editor, document, currentLine) for a line of the document
QueryCalculateIndent ==
    /\ op = NoOp
    /\ \E currentLine \in 0..(Len(lines) - 1) :
          op' = [ kind |-> "calculateIndent", currentLine |-> currentLine,
                  ret |-> calculateIndent(lines, currentLine) ]
    /\ UNCHANGED << lines, selections, editorOptions, lastEndPositions, pending, pc,
                    saved, prevLines, prevSelections, delivered >>

NextIndent == QueryCalculateIndent

SpecIndent == InitIndent /\ [][NextIndent]_vars

(***************************************************************************)
(* Claims about calculateIndent.                                           *)
(***************************************************************************)

\* The lines above the line asked about that hold a non-whitespace character.
linesWithContentAbove ==
    { n \in 0..(op.currentLine - 1) :
        \E i \in 1..Len(lines[n + 1]) : ~IsWhitespace(lines[n + 1][i]) }

\* The whitespace a line starts with.
leadingWhitespace(lineText) ==
    LET content == { i \in 1..Len(lineText) : ~IsWhitespace(lineText[i]) }
    IN  IF content = {} THEN lineText ELSE SubSeq(lineText, 1, Min(content) - 1)

\* C15: for a line with a non-empty line somewhere above it, calculateIndent
\* returns the leading whitespace of the nearest such line, followed by one
\* indent unit (tabSize spaces, or one tab) when shouldIncreaseIndent matches
\* that line, and by nothing when it does not.
C15_IndentFromPreviousLine ==
    (op.kind = "calculateIndent" /\ linesWithContentAbove # {}) =>
        LET prevText == lines[Max(linesWithContentAbove) + 1]
            indentUnit == IF insertSpaces THEN [ i \in 1..tabSize |-> " " ] ELSE << "\t" >>
        IN  op.ret = IF shouldIncreaseIndent(prevText)
                     THEN leadingWhitespace(prevText) \o indentUnit
                     ELSE leadingWhitespace(prevText)

\* C15's case: the line asked about is separated by a whitespace-only line
\* from an indented line that opens a block.
C15_Witness ==
    /\ op.kind = "calculateIndent"
    /\ linesWithContentAbove # {}
    /\ Max(linesWithContentAbove) < op.currentLine - 1
    /\ shouldIncreaseIndent(lines[Max(linesWithContentAbove) + 1])
    /\ leadingWhitespace(lines[Max(linesWithContentAbove) + 1]) # <<>>
    /\ Len(lines[Max(linesWithContentAbove) + 2]) > 0
    /\ Len(op.ret) = Len(leadingWhitespace(lines[Max(linesWithContentAbove) + 1])) + tabSize

(***************************************************************************)
(* Claims about the layout of a brace expansion.                           *)
(***************************************************************************)
expandedSingle == enterDone /\ op.path = "expand"

\* The index of the "{" before column col of a line, only whitespace lying
\* between it and the column.
braceBefore(lineText, col) ==
    CHOOSE b \in 0..(col - 1) :
        /\ lineText[b + 1] = "{"
        /\ \A k \in (b + 2)..col : IsWhitespace(lineText[k])

\* The text behind the first "}" of a text, nothing when it holds no "}".
behindFirstClosing(text) ==
    LET closing == { k \in 1..Len(text) : text[k] = "}" }
    IN  IF closing = {} THEN <<>> ELSE SubSeq(text, Min(closing) + 1, Len(text))

\* One indentation step of the editor.
indentStep == IF insertSpaces THEN [ i \in 1..tabSize |-> " " ] ELSE << "\t" >>

\* C18: when Enter expands a brace with a single cursor on line L, line L is
\* the text the line had up to and including the "{", line L+1 is exactly
\* the line's indentation plus one indentation step, line L+2 is the line's
\* indentation followed by "}" and the text that stood behind the first "}"
\* after the brace, the lines around are as they were, and the cursor ends
\* on line L+1 behind the indentation; with an indentation step of four
\* spaces, function test() {<CURSOR>} becomes function test() {, four
\* spaces, } with the cursor at line 1, column 4.
C18_ExpansionLayout ==
    expandedSingle =>
        LET L == prevSelections[1].active.line
            originalText == op.planFrom[L + 1]
            brace == braceBefore(originalText, prevSelections[1].active.character)
            baseIndent == leadingWhitespace(originalText)
            innerIndent == baseIndent \o indentStep
            suffix == behindFirstClosing(SubSeq(originalText, brace + 2, Len(originalText)))
        IN  /\ Len(lines) = Len(op.planFrom) + 2
            /\ \A n \in 1..L : lines[n] = op.planFrom[n]
            /\ lines[L + 1] = SubSeq(originalText, 1, brace + 1)
            /\ lines[L + 2] = innerIndent
            /\ lines[L + 3] = baseIndent \o << "}" >> \o suffix
            /\ \A n \in (L + 2)..Len(op.planFrom) : lines[n + 2] = op.planFrom[n]
            /\ selections = << Cursor(L + 1, Len(innerIndent)) >>
            /\ (prevLines = << FunctionTest \o << "{", "}" >> >> /\ tabSize = 4) =>
                  /\ lines = << FunctionTest \o << "{" >>, << " ", " ", " ", " " >>, << "}" >> >>
                  /\ selections = << Cursor(1, 4) >>

\* C18's case: function test() {<CURSOR>} was expanded.
C18_Witness ==
    /\ expandedSingle
    /\ prevLines = << FunctionTest \o << "{", "}" >> >>
    /\ prevSelections = << Cursor(0, Len(FunctionTest) + 1) >>
    /\ Len(lines) = 3

\* The text of the line of the i-th cursor when the expansion read it, the
\* part of it behind the brace before the cursor, and the line its block
\* starts on once the blocks above it are in place.
lineRead(i) == op.planFrom[prevSelections[i].active.line + 1]

behindBrace(i) ==
    SubSeq(lineRead(i),
           braceBefore(lineRead(i), prevSelections[i].active.character) + 2,
           Len(lineRead(i)))

blockTop(i) ==
    LET line == prevSelections[i].active.line
        above == { j \in 1..Len(prevSelections) : prevSelections[j].active.line < line }
    IN  line + 2 * Cardinality(above)

\* C19: in a brace expansion, single or multi-cursor, where the line holds
\* a "}" behind the opening brace, the text behind the first such "}" stands
\* unchanged behind the new closing brace, and the text between the opening
\* brace and that "}" is in none of the three lines of the block: the first
\* ends with the opening brace, the second is whitespace only and the third
\* is the indentation, "}" and the kept text.
C19_SuffixPreserved ==
    expanded =>
        \A i \in 1..Len(prevSelections) :
            LET rest == behindBrace(i)
                closing == { k \in 1..Len(rest) : rest[k] = "}" }
                kept == SubSeq(rest, Min(closing) + 1, Len(rest))
                top == blockTop(i)
            IN  closing # {} =>
                   /\ lines[top + 1] \o rest = lineRead(i)
                   /\ \A k \in 1..Len(lines[top + 2]) : IsWhitespace(lines[top + 2][k])
                   /\ lines[top + 3] = leadingWhitespace(lineRead(i)) \o << "}" >> \o kept

\* C19's case: text stood between the brace and the first "}" behind it,
\* and text stood behind that "}": the closing line ends with the latter.
C19_Witness ==
    /\ expandedSingle
    /\ LET rest == behindBrace(1)
           closing == { k \in 1..Len(rest) : rest[k] = "}" }
       IN  /\ closing # {}
           /\ Min(closing) > 1
           /\ Min(closing) < Len(rest)
           /\ lines[blockTop(1) + 3] =
                  << "}" >> \o SubSeq(rest, Min(closing) + 1, Len(rest))

(***************************************************************************)
(* Claims about Backspace on an empty line below a line with content.      *)
(***************************************************************************)

\* The press found a single empty cursor on a whitespace-only line below a
\* line with content, with the empty-line option on.
onEmptyLineBelowText ==
    /\ op.kind = "backspace"
    /\ Len(prevSelections) = 1
    /\ isEmpty(prevSelections[1])
    /\ config.handleEmptyLine
    /\ prevSelections[1].active.line > 0
    /\ isBlank(prevLines[prevSelections[1].active.line + 1])
    /\ ~isBlank(prevLines[prevSelections[1].active.line])

\* C20 as stated: Backspace with a single empty cursor on an empty line
\* whose previous line has content takes the current line out of the
\* document, which has one line fewer, removes the trailing whitespace of
\* the previous line and leaves the cursor at the end of the trimmed
\* previous line, on every such line, the last line of the document
\* included.
C20_Original ==
    onEmptyLineBelowText =>
        LET L == prevSelections[1].active.line
            trimmed == SubSeq(prevLines[L], 1,
                              Max({ k \in 1..Len(prevLines[L]) :
                                      ~IsWhitespace(prevLines[L][k]) }))
        IN  /\ Len(lines) = Len(prevLines) - 1
            /\ \A n \in 1..(L - 1) : lines[n] = prevLines[n]
            /\ lines[L] = trimmed
            /\ \A n \in (L + 1)..Len(lines) : lines[n] = prevLines[n + 1]
            /\ selections = << Cursor(L - 1, Len(trimmed)) >>

(***************************************************************************)
(* SpecJoin: one press of Backspace with a single empty cursor, all        *)
(* options on, on documents large enough to hold a line with trailing      *)
(* whitespace above an indented line with content.                         *)
(***************************************************************************)
MaxJoinLines == 3
MaxJoinChars == 4

JoinDocs ==
    UNION { DocsWithin(BackspaceChars, n, MaxJoinChars) : n \in 2..MaxJoinLines }

InitJoin ==
    /\ uri = "a"
    /\ languageId = "typescript"
    /\ tabSize = 2
    /\ insertSpaces = TRUE
    /\ config = AllOn
    /\ lines \in JoinDocs
    /\ selections \in { << Cursor(p.line, p.character) >> : p \in Positions(lines) }
    /\ lastEndPositions = [ u \in Uris |-> NoPos ]
    /\ pending = <<>>
    /\ pc = "idle"
    /\ saved = NoOp
    /\ op = NoOp
    /\ prevLines = <<>>
    /\ prevSelections = <<>>
    /\ delivered = NoOp

NextJoin ==
    \/ BackspaceDeleteLeft
    \/ BackspaceEmptyLineWithEmptyPrevious
    \/ BackspaceEmptyLineWithTextPrevious
    \/ BackspaceFixIndent
    \/ BackspaceIndentZoneWithEmptyPrevious
    \/ BackspaceIndentZoneWithTextPrevious

SpecJoin == InitJoin /\ [][NextJoin]_vars

(***************************************************************************)
(* Claims about Backspace in the indent zone.                              *)
(***************************************************************************)

\* A text without the whitespace it ends with, and without the whitespace it
\* starts and ends with.
withoutTrailing(text) ==
    LET content == { k \in 1..Len(text) : ~IsWhitespace(text[k]) }
    IN  IF content = {} THEN <<>> ELSE SubSeq(text, 1, Max(content))

withoutSurrounding(text) ==
    LET content == { k \in 1..Len(text) : ~IsWhitespace(text[k]) }
    IN  IF content = {} THEN <<>> ELSE SubSeq(text, Min(content), Max(content))

\* The press found a single empty cursor in the indent zone of a line with
\* content, below a line with content, the indent of the line being no
\* longer than calculateIndent gives for it, with the options on.
inIndentZoneBelowText ==
    /\ op.kind = "backspace"
    /\ Len(prevSelections) = 1
    /\ isEmpty(prevSelections[1])
    /\ config.handleIndentZone
    /\ LET L == prevSelections[1].active.line
           lineText == prevLines[L + 1]
       IN  /\ L > 0
           /\ withoutSurrounding(lineText) # <<>>
           /\ prevSelections[1].active.character <= Len(leadingWhitespace(lineText))
           /\ Len(leadingWhitespace(lineText)) <= Len(calculateIndent(prevLines, L))
           /\ withoutSurrounding(prevLines[L]) # <<>>

\* C21: Backspace in the indent zone of a line with content whose indent is
\* not longer than calculateIndent and whose previous line has content
\* replaces the two lines by one line: the previous line without its
\* trailing whitespace, directly followed by the content of the current
\* line without the whitespace around it; the other lines are as they
\* were and the cursor is at the join, the length of the trimmed previous
\* line.
C21_IndentZoneMerge ==
    inIndentZoneBelowText =>
        LET L == prevSelections[1].active.line
            joinAt == Len(withoutTrailing(prevLines[L]))
        IN  /\ op.path = "indentZoneWithTextPrevious"
            /\ Len(lines) = Len(prevLines) - 1
            /\ \A n \in 1..(L - 1) : lines[n] = prevLines[n]
            /\ lines[L] = withoutTrailing(prevLines[L]) \o withoutSurrounding(prevLines[L + 1])
            /\ \A n \in (L + 1)..Len(lines) : lines[n] = prevLines[n + 1]
            /\ selections = << Cursor(L - 1, joinAt) >>

\* C21's case: the previous line ended in whitespace and the current line
\* was indented; both went and the cursor is at the join.
C21_Witness ==
    /\ inIndentZoneBelowText
    /\ LET L == prevSelections[1].active.line
       IN  /\ Len(withoutTrailing(prevLines[L])) < Len(prevLines[L])
           /\ Len(leadingWhitespace(prevLines[L + 1])) > 0
           /\ Len(lines[L]) = Len(prevLines[L]) + Len(prevLines[L + 1]) - 2
           /\ selections[1].active.character < Len(lines[L])

\* The non-whitespace characters of a document in reading order.
RECURSIVE nonWhitespace(_)
nonWhitespace(ls) ==
    IF ls = <<>> THEN <<>>
    ELSE SelectSeq(ls[1], LAMBDA c : ~IsWhitespace(c)) \o nonWhitespace(Tail(ls))

smartBackspace == op.kind = "backspace" /\ op.path # "deleteLeft"

\* C30: no path of Backspace other than the default command deletes or
\* reorders a non-whitespace character: the non-whitespace characters of
\* the whole document, in reading order, are the same before and after the
\* press, and the document has as many lines as before or one fewer.
C30_SmartBackspaceKeepsContent ==
    smartBackspace =>
        /\ nonWhitespace(lines) = nonWhitespace(prevLines)
        /\ Len(lines) \in { Len(prevLines), Len(prevLines) - 1 }

\* C30's case: two lines with content were joined into one, whitespace
\* went and every other character stayed.
C30_Witness ==
    /\ smartBackspace
    /\ op.path = "indentZoneWithTextPrevious"
    /\ Len(lines) = Len(prevLines) - 1
    /\ Len(nonWhitespace(prevLines)) >= 2
    /\ \E n \in 1..Len(prevLines) : Len(prevLines[n]) > Len(nonWhitespace(<< prevLines[n] >>))
    /\ nonWhitespace(lines) = nonWhitespace(prevLines)

(***************************************************************************)
(* SpecColon: ":" typed once in a JSON document of one line, with one      *)
(* cursor, one selection or two of them, every combination of the two      *)
(* options of ":".                                                         *)
(***************************************************************************)
MaxColonChars == 3

\* What the handler tells apart: a name character, the quote, whitespace,
\* the colon, and a character that is none of these.
ColonChars == { "a", "\"", " ", ":", "}" }

ColonDocs == { << t >> : t \in TextsUpTo(ColonChars, MaxColonChars) }

\* One cursor or forward selection, or two that do not touch.
ColonSelections(ls) ==
    LET ranges == { sel \in { Selection(p, q) : p \in Positions(ls), q \in Positions(ls) } :
                      ~isBefore(sel.active, sel.anchor) }
        apart(s, t) == \/ isBefore(rangeEnd(s), rangeStart(t))
                       \/ isBefore(rangeEnd(t), rangeStart(s))
    IN  { << s >> : s \in ranges }
            \cup { st \in { << s, t >> : s \in ranges, t \in ranges } : apart(st[1], st[2]) }

InitColon ==
    /\ uri = "a"
    /\ languageId = "json"
    /\ tabSize = 2
    /\ insertSpaces = TRUE
    /\ config \in { [ AllOn EXCEPT !.addWhitespaceAfterColon = w,
                                   !.addQuotesToPropertyNames = q ] :
                      w \in BOOLEAN, q \in BOOLEAN }
    /\ lines \in ColonDocs
    /\ selections \in ColonSelections(lines)
    /\ lastEndPositions = [ u \in Uris |-> NoPos ]
    /\ pending = <<>>
    /\ pc = "idle"
    /\ saved = NoOp
    /\ op = NoOp
    /\ prevLines = <<>>
    /\ prevSelections = <<>>
    /\ delivered = NoOp

NextColon ==
    \/ ColonDefault
    \/ ColonSmart

SpecColon == InitColon /\ [][NextColon]_vars

(***************************************************************************)
(* Claims about ":" in JSON.                                               *)
(***************************************************************************)
colonTyped == op.kind = "colon"

\* A line in which every selection was replaced by ":", read from column c
\* on; a cursor is a selection of nothing.
RECURSIVE typedOver(_, _, _)
typedOver(text, sels, c) ==
    LET here == { i \in 1..Len(sels) : rangeStart(sels[i]).character = c }
        onward(col) == IF col >= Len(text) THEN <<>>
                       ELSE << text[col + 1] >> \o typedOver(text, sels, col + 1)
    IN  IF here # {}
        THEN << ":" >> \o onward(rangeEnd(sels[CHOOSE i \in here : TRUE]).character)
        ELSE onward(c)

\* C22: with more than one cursor or a non-empty selection, ":" typed in a
\* JSON document is inserted literally: every selection is replaced by ":"
\* and nothing else changes; no whitespace is removed, no quote and no
\* space is added.
C22_ColonLiteralUnlessSingleCursor ==
    (colonTyped /\ (Len(prevSelections) > 1 \/ ~isEmpty(prevSelections[1]))) =>
        /\ op.path = "default"
        /\ lines = << typedOver(prevLines[1], prevSelections, 0) >>
        /\ occurrences(lines, "\"") = occurrences(prevLines, "\"")
                - Cardinality({ p \in Positions(prevLines) :
                      /\ p.character < Len(prevLines[1])
                      /\ prevLines[1][p.character + 1] = "\""
                      /\ \E i \in 1..Len(prevSelections) :
                            /\ ~isBefore(p, rangeStart(prevSelections[i]))
                            /\ isBefore(p, rangeEnd(prevSelections[i])) })

\* C22's case: two cursors, the first behind an unquoted name followed by
\* whitespace, both options on: the name and the whitespace stayed as they
\* were.
C22_Witness ==
    /\ colonTyped
    /\ Len(prevSelections) = 2
    /\ config.addWhitespaceAfterColon /\ config.addQuotesToPropertyNames
    /\ prevLines = << << "a", " " >> >>
    /\ prevSelections = << Cursor(0, 2), Cursor(0, 0) >>
    /\ lines = << << ":", "a", " ", ":" >> >>

\* The press found a single empty cursor directly behind an unquoted name
\* that starts at column from, no ":" following the cursor, both options of
\* ":" on.
behindUnquotedName(from) ==
    /\ colonTyped
    /\ Len(prevSelections) = 1
    /\ isEmpty(prevSelections[1])
    /\ config.addWhitespaceAfterColon /\ config.addQuotesToPropertyNames
    /\ LET text == prevLines[1]
           c == prevSelections[1].active.character
       IN  /\ from < c
           /\ \A k \in (from + 1)..c : text[k] = "a"
           /\ from = 0 \/ text[from] \in { " ", "}", ":" }
           /\ \A k \in (c + 1)..Len(text) :
                 text[k] = ":" => \E j \in (c + 1)..(k - 1) : text[j] \notin { " ", ":" }

\* C24 as stated: ":" typed behind the unquoted property name in a JSON
\* document, quoting and the space being on, puts the name in quotes with
\* ": " behind it, the text around being as it was, and leaves the cursor
\* two characters behind the column of the separator, that is behind ": ".
C24_Original ==
    \A from \in 0..MaxColonChars :
        behindUnquotedName(from) =>
            LET text == prevLines[1]
                c == prevSelections[1].active.character
                name == SubSeq(text, from + 1, c)
            IN  /\ lines[1] = SubSeq(text, 1, from)
                                \o << "\"" >> \o name \o << "\"", ":", " " >>
                                \o SubSeq(text, c + 1, Len(text))
                /\ selections = << Cursor(0, (c + 2) + 2) >>

(***************************************************************************)
(* SpecComma: one press of Enter in a JSON document of one line that holds *)
(* no opening brace, so that Enter never expands: the comma handler and    *)
(* the default line break.                                                 *)
(***************************************************************************)
MaxCommaChars == 4

\* What lineNeedsComma tells apart: the colon of a property, the end of a
\* value, whitespace and the comma.
CommaChars == { ":", "1", " ", "," }

CommaDocs == { << t >> : t \in TextsUpTo(CommaChars, MaxCommaChars) }

InitComma ==
    /\ uri = "a"
    /\ languageId = "json"
    /\ tabSize = 2
    /\ insertSpaces = TRUE
    /\ config \in { AllOn, [ AllOn EXCEPT !.insertCommaOnEnter = FALSE ] }
    /\ lines \in CommaDocs
    /\ selections \in EnterSelections(lines)
    /\ lastEndPositions = [ u \in Uris |-> NoPos ]
    /\ pending = <<>>
    /\ pc = "idle"
    /\ saved = NoOp
    /\ op = NoOp
    /\ prevLines = <<>>
    /\ prevSelections = <<>>
    /\ delivered = NoOp

NextComma ==
    \/ EnterJsonComma
    \/ EnterDefaultNewline

SpecComma == InitComma /\ [][NextComma]_vars

(***************************************************************************)
(* Claims about the comma that Enter adds in JSON.                         *)
(***************************************************************************)

\* A line of the documents above that needs a comma: its content holds a
\* colon and ends with a value, here a digit.
needsTerminator(lineText) ==
    LET content == withoutSurrounding(lineText)
    IN  /\ content # <<>>
        /\ content[Len(content)] = "1"
        /\ \E k \in 1..Len(content) : content[k] = ":"

\* Enter was pressed in JSON, the option on, with the primary selection an
\* empty one on a line that needs a comma.
enterOnLineNeedingComma ==
    /\ op.kind = "enter"
    /\ isJsonDocument
    /\ config.insertCommaOnEnter
    /\ isEmpty(prevSelections[1])
    /\ needsTerminator(prevLines[prevSelections[1].active.line + 1])

\* The document with a comma directly behind the content of line l, before
\* the whitespace the line ends with.
lineWithComma(ls, l) ==
    [ ls EXCEPT ![l + 1] = withoutTrailing(@) \o << "," >>
                              \o SubSeq(@, Len(withoutTrailing(@)) + 1, Len(@)) ]

\* C23: when Enter is pressed on a JSON line that needs a comma, the comma
\* is inserted at the column directly behind the content of the line,
\* before any trailing whitespace, and it is inserted before the line
\* break: first the document is the one before the press with the comma and
\* no further line, and the line break is then made in that document.
C23_CommaBeforeNewline ==
    enterOnLineNeedingComma =>
        LET l == prevSelections[1].active.line
        IN  /\ pc = "enterBraceLogic" =>
                  /\ op.path = "comma"
                  /\ lines = lineWithComma(prevLines, l)
            /\ pc = "idle" =>
                  /\ op.batches = 2
                  /\ op.planFrom = lineWithComma(prevLines, l)
                  /\ Len(lines) > Len(prevLines)

\* C23's case: the line ended in whitespace and the cursor stood at its
\* end; the comma stands behind the value and the line was broken behind
\* the whitespace.
C23_Witness ==
    /\ enterOnLineNeedingComma
    /\ pc = "idle"
    /\ prevLines = << << ":", "1", " " >> >>
    /\ prevSelections = << Cursor(0, 3) >>
    /\ lines = << << ":", "1", ",", " " >>, <<>> >>

(***************************************************************************)
(* Claims about the End state and the notifications of the action that     *)
(* wrote it.                                                               *)
(***************************************************************************)

\* A single-cursor End action has completed and every notification raised
\* so far has been delivered, nothing else having happened since.
ownNotificationsDelivered ==
    /\ op.kind = "end"
    /\ op.path \in { "nonEmpty", "emptyLine" }
    /\ pc = "idle"
    /\ pending = << >>

\* A notification that leaves a state recorded at (line, character) alone:
\* a cursor on that line, at most one column away.
withinTolerance(n, line, character) ==
    /\ n.type = "selection"
    /\ n.line = line
    /\ n.character - character \in { -1, 0, 1 }

freshTarget(lineText, currentChar) ==
    LET content == Len(withoutTrailing(lineText))
    IN  IF currentChar = content /\ content < Len(lineText)
        THEN [ position |-> Len(lineText), atTrimmedEnd |-> FALSE ]
        ELSE [ position |-> content, atTrimmedEnd |-> TRUE ]

\* The cursor of notification n is off the line of the recorded state or
\* more than one character from its character.
movedAway(n, recorded) ==
    /\ n.type = "selection"
    /\ recorded # NoPos
    /\ ~withinTolerance(n, recorded.line, recorded.character)

\* The last thing that happened is that the cursor moved away from the
\* recorded state, and End can be pressed.
endAfterMoveAway ==
    /\ pc = "idle"
    /\ pending = << >>
    /\ delivered # NoOp
    /\ movedAway(delivered.note, delivered.before)

\* C25: a toggle decision never uses a stale state entry.  Whenever End can
\* be pressed, a recorded state of the document lies on the line of the
\* tracked cursor and at most one character from it; and an End press that
\* follows a move of the tracked cursor off the recorded line or more than
\* one character from the recorded character goes where it goes when no
\* state is recorded, and records that.
C25_NoStaleEntry ==
    /\ [](( pc = "idle" /\ pending = << >> /\ lastEndPositions[uri] # NoPos ) =>
            withinTolerance(SelectionChanged(uri, selections),
                            lastEndPositions[uri].line,
                            lastEndPositions[uri].character))
    /\ [][ ( endAfterMoveAway /\ op'.kind = "end" /\ op'.path = "nonEmpty" ) =>
             LET at == selections[1].active
                 fresh == freshTarget(lines[at.line + 1], at.character)
             IN  /\ selections' = << Cursor(at.line, fresh.position) >>
                 /\ lastEndPositions'[uri] =
                        [ line |-> at.line, character |-> fresh.position,
                          atTrimmedEnd |-> fresh.atTrimmedEnd ] ]_vars

\* C25's case: a state was recorded, the cursor then moved off its line or
\* more than one character away, the notification of the move has arrived
\* and the state is gone, and End can be pressed on a line with content.
C25_Witness ==
    /\ endAfterMoveAway
    /\ op.kind = "move"
    /\ lastEndPositions[uri] = NoPos
    /\ Len(selections) = 1
    /\ ~isBlank(lines[selections[1].active.line + 1])
    /\ canUseSmartBehavior

(***************************************************************************)
(* SpecDocs: the End key in two documents.  The user works in one editor   *)
(* at a time and opens the other document in its place; the handler keeps  *)
(* its states of both until the extension is deactivated.                  *)
(***************************************************************************)
MaxOpenChars == 1

\* The documents on disk: one line each.
OpenDocs == { << text >> : text \in TextsUpTo(EndChars, MaxOpenChars) }

\* The user opens the other document in the editor: its text is what is on
\* disk, the cursor is at its start.  The handler is not told.
OpenDocument ==
    /\ CanStart
    /\ \E u \in Uris \ { uri } : uri' = u
    /\ lines' \in OpenDocs
    /\ selections' = << Cursor(0, 0) >>
    /\ op' = [ kind |-> "open" ]
    /\ Acted
    /\ UNCHANGED << languageId, tabSize, insertSpaces, config, lastEndPositions,
                    pending, pc, saved >>

\* deactivate: clear() drops every state; the subscriptions are disposed of
\* and nothing reaches the extension any more.
deactivate ==
    /\ pc = "idle"
    /\ lastEndPositions' = [ u \in Uris |-> NoPos ]
    /\ pending' = << >>
    /\ pc' = "deactivated"
    /\ op' = [ kind |-> "deactivate" ]
    /\ Acted
    /\ UNCHANGED << lines, selections, editorOptions, saved >>

InitDocs ==
    /\ Activated
    /\ lines \in OpenDocs
    /\ selections = << Cursor(0, 0) >>

NextDocs ==
    \/ EndNonEmptyLine
    \/ EndEmptyLine
    \/ EndEmptyLineResume
    \/ Deliver
    \/ MoveCursor
    \/ TypeChar
    \/ OpenDocument
    \/ deactivate

SpecDocs == InitDocs /\ [][NextDocs]_vars

(***************************************************************************)
(* Claims about the End states of several documents.                       *)
(***************************************************************************)

\* The document a step is about: the one of the notification when a
\* notification is delivered, the one the suspended handler started in when
\* it resumes, the one in the editor otherwise.
documentOfStep ==
    IF delivered' # NoOp THEN delivered'.note.uri
    ELSE IF pc = "handleEmptyLine" THEN saved.documentUri
    ELSE uri

\* C28: the End state is kept per document.  An End press, a reset, an edit
\* or a cursor move in one document leaves the recorded state of every
\* other document as it is, and clear() leaves no document with a state.
C28_StatePerDocument ==
    [][ /\ op'.kind # "deactivate" =>
              \A u \in Uris \ { documentOfStep } :
                  lastEndPositions'[u] = lastEndPositions[u]
        /\ op'.kind = "deactivate" =>
              \A u \in Uris : lastEndPositions'[u] = NoPos ]_vars

\* C28's case: both documents had a state, the state of "b" was dropped on
\* a notification about "b", and the state of "a" is still there.
C28_Witness ==
    /\ delivered # NoOp
    /\ delivered.note.uri = "b"
    /\ delivered.before # NoPos
    /\ delivered.after = NoPos
    /\ lastEndPositions["a"] # NoPos
    /\ lastEndPositions["b"] = NoPos

(***************************************************************************)
(* Claims about the batch of a multi-cursor brace expansion.               *)
(***************************************************************************)

\* A batch of expansions was applied.
batchExpanded == enterDone /\ op.path = "multi"

\* The cursors before the press on lines above line l.
cursorsAbove(l) ==
    { j \in 1..Len(prevSelections) : prevSelections[j].active.line < l }

\* The cursors before the press in front of position p: on lines above it
\* or on its line at a smaller column.
cursorsInFront(p) ==
    { j \in 1..Len(prevSelections) : isBefore(prevSelections[j].active, p) }

\* C27 as stated: in a multi-cursor brace expansion every cursor ends on
\* its line plus 1 plus the lines inserted by the expansions on lines above
\* it (two each) and by no others.
C27_Original ==
    batchExpanded =>
        { selections[k].active.line : k \in 1..Len(selections) }
            = { l + 1 + 2 * Cardinality(cursorsAbove(l)) :
                    l \in { prevSelections[i].active.line : i \in 1..Len(prevSelections) } }

\* The line a cursor that was at p is on behind the batch: one line down
\* into its own block, and two more for every expansion in front of it.
shiftedLine(p) == p.line + 1 + 2 * Cardinality(cursorsInFront(p))

\* C27: in a multi-cursor brace expansion every cursor ends on its line
\* plus 1 plus the lines inserted by the expansions of the cursors in front
\* of it (two each): those on lines above it and those at a smaller column
\* of its own line; expansions behind it do not move it.  The line it ends
\* on is the inner line of its own block, below the line up to its brace
\* when it is the first cursor of its line.
C27_CursorLineShift ==
    batchExpanded =>
        /\ Len(selections) = Len(prevSelections)
        /\ Len(lines) = Len(prevLines) + 2 * Len(prevSelections)
        /\ { selections[k].active.line : k \in 1..Len(selections) }
              = { shiftedLine(prevSelections[i].active) : i \in 1..Len(prevSelections) }
        /\ \A i \in 1..Len(prevSelections) :
              LET was == prevSelections[i].active
                  now == shiftedLine(was)
                  before == prevLines[was.line + 1]
              IN  /\ cursorsInFront(was) \subseteq cursorsAbove(was.line) =>
                        lines[now] = SubSeq(before, 1, braceBefore(before, was.character) + 1)
                  /\ isBlank(lines[now + 1])
                  /\ \E k \in 1..Len(selections) :
                        selections[k] = Cursor(now, Len(lines[now + 1]))

\* C27's case: two cursors behind two braces of one line; the first one
\* ended one line below the line, the second one three lines below it.
C27_Witness ==
    /\ batchExpanded
    /\ Len(prevSelections) = 2
    /\ prevSelections[1].active.line = prevSelections[2].active.line
    /\ { selections[k].active.line : k \in 1..Len(selections) }
          = { prevSelections[1].active.line + 1, prevSelections[1].active.line + 3 }

\* Every cursor passed the gate of the multi-cursor expansion, and the
\* replacements the handler builds for them.
batchBuilt == enterDone /\ op.path \in { "multi", "rejected" }
batchEdits ==
    [ i \in 1..Len(prevSelections) |-> expansionEdit(prevLines, prevSelections[i]) ]

\* Two ranges have a character or a line end in common.
rangesIntersect(e, f) == isBefore(e.start, f.end) /\ isBefore(f.start, e.end)

\* C29 as stated: the ranges of the replacements of a multi-cursor brace
\* expansion have pairwise nothing in common, whatever cursors passed the
\* gate, two cursors behind the same brace of one line included.
C29_Original ==
    batchBuilt =>
        \A i, j \in 1..Len(prevSelections) :
            i # j => ~rangesIntersect(batchEdits[i], batchEdits[j])

====
